---- MODULE Spec2Model ----
(***************************************************************************)
(* A model of jsonldframe2schema: FrameToSchemaConverter.convert turns a   *)
(* JSON-LD frame (a parsed JSON tree) into a JSON Schema document.         *)
(*                                                                         *)
(* JSON values are tagged tuples, so that two values of different Python   *)
(* types are always comparable:                                            *)
(*   <<"null">>  <<"bool", b>>  <<"int", n>>  <<"float", s>>  <<"str", s>> *)
(*   <<"arr", <<v1, ..., vn>> >>                                           *)
(*   <<"obj", << <<k1, v1>>, ..., <<kn, vn>> >> >>                         *)
(* An object keeps its keys in insertion order, as a Python dict does.     *)
(***************************************************************************)
EXTENDS Integers, Sequences, FiniteSets, TLC

VARIABLES
    TYPE_MAPPINGS,   \* the class-level table shared by every converter
    converter,       \* the converter instance: schema_version, graph_only
    frame,           \* the caller's frame object, as it is now
    returned,        \* the schema the last convert call returned (None before)
    call,            \* ghost: the last call: the frame as it was passed, the
                     \* converter called, the flags each node was processed with,
                     \* whether the caller has edited the returned schema and
                     \* whether frame is still the object that was passed
    earlier,         \* ghost: one earlier call and what it returned
    threads,         \* the convert calls that run at the same time, each with
                     \* its local variables
    pyld             \* the expansion collaborator: the context keys for which
                     \* jsonld.expand fails, by the exception it raises

vars == <<TYPE_MAPPINGS, converter, frame, returned, call, earlier, threads, pyld>>

----------------------------------------------------------------------------
(* JSON values *)

None == <<"null">>
True == <<"bool", TRUE>>
False == <<"bool", FALSE>>
Bool(b) == <<"bool", b>>
Integer(n) == <<"int", n>>
Float(s) == <<"float", s>>
Str(s) == <<"str", s>>
Arr(items) == <<"arr", items>>
Obj(pairs) == <<"obj", pairs>>
EmptyObj == Obj(<<>>)

Tag(v) == v[1]
Val(v) == v[2]
IsDict(v) == Tag(v) = "obj"
IsList(v) == Tag(v) = "arr"
IsStr(v) == Tag(v) = "str"

\* key in d
Has(d, k) == \E i \in 1..Len(Val(d)) : Val(d)[i][1] = k

\* d[k]
At(d, k) == Val(d)[CHOOSE i \in 1..Len(Val(d)) : Val(d)[i][1] = k][2]

\* d.get(k, default)
Get(d, k, default) == IF Has(d, k) THEN At(d, k) ELSE default

\* d[k] = v: a new key goes last, an old key keeps its place
Put(d, k, v) ==
    IF Has(d, k)
    THEN Obj([i \in 1..Len(Val(d)) |->
                 IF Val(d)[i][1] = k THEN <<k, v>> ELSE Val(d)[i]])
    ELSE Obj(Append(Val(d), <<k, v>>))

\* the keys of d, in order
Keys(d) == [i \in 1..Len(Val(d)) |-> Val(d)[i][1]]

KeySet(d) == {Val(d)[i][1] : i \in 1..Len(Val(d))}

\* {**a, **b}
Merge(a, b) ==
    LET RECURSIVE M(_, _)
        M(acc, i) == IF i > Len(Val(b)) THEN acc
                     ELSE M(Put(acc, Val(b)[i][1], Val(b)[i][2]), i + 1)
    IN M(a, 1)

\* a list of strings as a JSON array
StrList(names) == Arr([i \in 1..Len(names) |-> Str(names[i])])

\* Python truthiness of a JSON value
Truthy(v) ==
    CASE Tag(v) = "null" -> FALSE
      [] Tag(v) = "bool" -> Val(v)
      [] Tag(v) = "int" -> Val(v) # 0
      [] Tag(v) = "float" -> Val(v) # "0.0"
      [] Tag(v) = "str" -> Val(v) # ""
      [] OTHER -> Len(Val(v)) > 0

----------------------------------------------------------------------------
(* Class constants *)

XSD == "http://www.w3.org/2001/XMLSchema#"

\* one schema fragment {"type": t}, and {"type": t, "format": f}
TypeOnly(t) == Obj(<< <<"type", Str(t)>> >>)
TypeFormat(t, f) == Obj(<< <<"type", Str(t)>>, <<"format", Str(f)>> >>)

\* the value TYPE_MAPPINGS has when the class is loaded
TYPE_MAPPINGS_initial ==
    Obj(<< <<"@id", TypeFormat("string", "uri")>>,
           <<XSD \o "string", TypeOnly("string")>>,
           <<XSD \o "integer", TypeOnly("integer")>>,
           <<XSD \o "int", TypeOnly("integer")>>,
           <<XSD \o "long", TypeOnly("integer")>>,
           <<XSD \o "boolean", TypeOnly("boolean")>>,
           <<XSD \o "double", TypeOnly("number")>>,
           <<XSD \o "float", TypeOnly("number")>>,
           <<XSD \o "decimal", TypeOnly("number")>>,
           <<XSD \o "dateTime", TypeFormat("string", "date-time")>>,
           <<XSD \o "date", TypeFormat("string", "date")>>,
           <<XSD \o "time", TypeFormat("string", "time")>> >>)

FRAMING_KEYWORDS ==
    {"@context", "@embed", "@explicit", "@requireAll", "@omitDefault",
     "@graph", "@reverse"}

DefaultSchemaVersion == "https://json-schema.org/draft/2020-12/schema"

\* an argument the caller leaves out
Omitted == <<"omitted">>

\* FrameToSchemaConverter(schema_version, graph_only), an omitted argument
\* taking its default; given (ghost) keeps the arguments as they were passed
__init__(schema_version, graph_only) ==
    [schema_version |-> IF schema_version = Omitted THEN DefaultSchemaVersion
                        ELSE Val(schema_version),
     graph_only |-> IF graph_only = Omitted THEN FALSE ELSE Val(graph_only),
     given |-> [schema_version |-> schema_version, graph_only |-> graph_only]]

----------------------------------------------------------------------------
(* Leaf predicates and translators *)

_is_empty(value) == IsDict(value) /\ Len(Val(value)) = 0

_is_wildcard(value) ==
    _is_empty(value) \/ (IsList(value) /\ Len(Val(value)) = 0)

_infer_json_type(value) ==
    CASE Tag(value) = "bool" -> "boolean"
      [] Tag(value) = "int" -> "integer"
      [] Tag(value) = "float" -> "number"
      [] Tag(value) = "str" -> "string"
      [] Tag(value) = "arr" -> "array"
      [] Tag(value) = "obj" -> "object"
      [] Tag(value) = "null" -> "null"
      [] OTHER -> "string"

_extract_framing_flags(f) ==
    [embed |-> Get(f, "@embed", True),
     explicit |-> Get(f, "@explicit", False),
     requireAll |-> Get(f, "@requireAll", False),
     omitDefault |-> Get(f, "@omitDefault", False)]

\* _process_type_constraint, had every non-empty list become an enum
_process_type_constraint_enum(type_value) ==
    IF IsStr(type_value) THEN Obj(<< <<"const", type_value>> >>)
    ELSE IF IsList(type_value) THEN
        IF Len(Val(type_value)) = 0 THEN TypeOnly("string")
        ELSE Obj(<< <<"enum", type_value>> >>)
    ELSE TypeOnly("string")

_process_type_constraint(type_value) ==
    IF IsStr(type_value) THEN Obj(<< <<"const", type_value>> >>)
    ELSE IF IsList(type_value) THEN
        IF Len(Val(type_value)) = 0 THEN TypeOnly("string")
        ELSE IF Len(Val(type_value)) = 1
             THEN Obj(<< <<"const", Val(type_value)[1]>> >>)
        ELSE Obj(<< <<"enum", type_value>> >>)
    ELSE TypeOnly("string")

\* _process_id_constraint, had {"@id": X} not been followed into X
_process_id_constraint_flat(id_value) ==
    IF IsStr(id_value) THEN Obj(<< <<"const", id_value>> >>)
    ELSE TypeFormat("string", "uri")

RECURSIVE _process_id_constraint(_)
_process_id_constraint(id_value) ==
    IF IsStr(id_value) THEN Obj(<< <<"const", id_value>> >>)
    ELSE IF _is_empty(id_value) THEN TypeFormat("string", "uri")
    ELSE IF IsDict(id_value) /\ Has(id_value, "@id")
         THEN _process_id_constraint(At(id_value, "@id"))
    ELSE TypeFormat("string", "uri")

\* _should_be_required, had @omitDefault been tested before @requireAll
_should_be_required_omit_first(key, value, flags) ==
    IF Truthy(flags.omitDefault) THEN FALSE
    ELSE IF Truthy(flags.requireAll) THEN TRUE
    ELSE IF _is_empty(value) THEN TRUE
    ELSE IF IsDict(value) \/ IsList(value) THEN TRUE
    ELSE FALSE

_should_be_required(key, value, flags) ==
    IF Truthy(flags.requireAll) THEN TRUE
    ELSE IF Truthy(flags.omitDefault) THEN FALSE
    ELSE IF _is_empty(value) THEN TRUE
    ELSE IF IsDict(value) \/ IsList(value) THEN TRUE
    ELSE FALSE

\* _process_value_object_frame, had the empty-pattern branches of lines 593
\* and 602 been left out
_process_value_object_frame_literal_only(value_frame, flags, context) ==
    LET base == Obj(<< <<"@value", EmptyObj>> >>)
        lang == At(value_frame, "@language")
        withLang ==
            IF Has(value_frame, "@language") /\ IsStr(lang)
            THEN Put(base, "@language", Obj(<< <<"const", lang>> >>))
            ELSE base
        type_val == At(value_frame, "@type")
        withType ==
            IF Has(value_frame, "@type") /\ IsStr(type_val)
            THEN Put(withLang, "@type", Obj(<< <<"const", type_val>> >>))
            ELSE withLang
    IN Obj(<< <<"oneOf", Arr(<<TypeOnly("string"),
                               Obj(<< <<"type", Str("object")>>,
                                      <<"properties", withType>>,
                                      <<"required", StrList(<<"@value">>)>> >>)>>)>> >>)

_process_value_object_frame(value_frame, flags, context) ==
    LET base == Obj(<< <<"@value", EmptyObj>> >>)
        lang == At(value_frame, "@language")
        withLang ==
            IF Has(value_frame, "@language") THEN
                IF IsStr(lang) THEN Put(base, "@language", Obj(<< <<"const", lang>> >>))
                ELSE IF _is_empty(lang) THEN Put(base, "@language", TypeOnly("string"))
                ELSE base
            ELSE base
        type_val == At(value_frame, "@type")
        withType ==
            IF Has(value_frame, "@type") THEN
                IF IsStr(type_val)
                THEN Put(withLang, "@type", Obj(<< <<"const", type_val>> >>))
                ELSE IF _is_empty(type_val)
                     THEN Put(withLang, "@type", TypeOnly("string"))
                ELSE withLang
            ELSE withLang
        value_obj_schema ==
            Obj(<< <<"type", Str("object")>>,
                   <<"properties", withType>>,
                   <<"required", StrList(<<"@value">>)>> >>)
    IN Obj(<< <<"oneOf", Arr(<<TypeOnly("string"), value_obj_schema>>)>> >>)

----------------------------------------------------------------------------
(* Type/Container resolver *)

\* the strings of the model that begin with "@" (key.startswith("@"))
AtWords ==
    {"@context", "@embed", "@explicit", "@requireAll", "@omitDefault",
     "@graph", "@reverse", "@type", "@id", "@value", "@language",
     "@default", "@vocab", "@version", "@container", "@set", "@list",
     "@index", "@never", "@always", "@link"}

\* the @container values of the model's contexts
ContainerValues == {"@language", "@index", "@set", "@list", "@graph"}

\* the compact IRIs of the model's contexts, split at the colon
CompactIRIs ==
    {[c |-> "xsd:integer", prefix |-> "xsd", local |-> "integer"],
     [c |-> "xsd:boolean", prefix |-> "xsd", local |-> "boolean"],
     [c |-> "xsd:dateTime", prefix |-> "xsd", local |-> "dateTime"],
     [c |-> "xsd:double", prefix |-> "xsd", local |-> "double"],
     [c |-> "xsd:date", prefix |-> "xsd", local |-> "date"],
     [c |-> "xsd:string", prefix |-> "xsd", local |-> "string"],
     [c |-> "ex:Thing", prefix |-> "ex", local |-> "Thing"]}

\* a collaborator that fails for no key
Resolves == [recovered |-> {}, aborting |-> {}]

\* pyld builds every term definition of the context before it expands the
\* document: a @type that is no keyword and no IRI is an invalid type mapping
invalid_type_mapping(context) ==
    \E i \in 1..Len(Val(context)) :
        /\ IsDict(Val(context)[i][2])
        /\ Has(Val(context)[i][2], "@type")
        /\ \/ ~IsStr(At(Val(context)[i][2], "@type"))
           \/ /\ Val(At(Val(context)[i][2], "@type")) \notin {"@id", "@vocab"}
              /\ \A c \in CompactIRIs : c.c # Val(At(Val(context)[i][2], "@type"))

\* jsonld.expand({"@context": context, key: "test_value"}), reduced to what
\* the resolver reads from it: the @type of the expanded value, no @type
\* (the coercion is @id or @vocab), a JsonLdError, ValueError or TypeError
\* ("raise": the collaborator fails for the key, or the context is invalid),
\* or a KeyError
jsonld_expand(context, key) ==
    LET t == At(At(context, key), "@type")
    IN  IF key \in pyld.aborting THEN [kind |-> "KeyError", uri |-> ""]
        ELSE IF key \in pyld.recovered \/ invalid_type_mapping(context)
        THEN [kind |-> "raise", uri |-> ""]
        ELSE IF Val(t) \in {"@id", "@vocab"} THEN [kind |-> "none", uri |-> ""]
        ELSE LET c == CHOOSE c \in CompactIRIs : c.c = Val(t)
             IN  IF Has(context, c.prefix) /\ IsStr(At(context, c.prefix))
                 THEN [kind |-> "type", uri |-> Val(At(context, c.prefix)) \o c.local]
                 ELSE [kind |-> "type", uri |-> Val(t)]

\* lines 184-201: the pass reaches jsonld.expand
expands(key, value) ==
    /\ key \notin AtWords
    /\ IsDict(value)
    /\ ~Has(value, "@container")
    /\ Has(value, "@type")

\* walk_aborts, had the handler of lines 216-218 been missing
walk_aborts_any(context, key, value) ==
    /\ expands(key, value)
    /\ jsonld_expand(context, key).kind \in {"KeyError", "raise"}

\* lines 230-232: an exception the handler of lines 216-218 does not name
\* leaves the loop; the handler passes and line 234 returns type_map
walk_aborts(context, key, value) ==
    /\ expands(key, value)
    /\ jsonld_expand(context, key).kind = "KeyError"

\* _parse_context_item, had @type been tested before @container
_parse_context_item_type_first(context, type_map, key, value) ==
    IF key \in AtWords THEN type_map
    ELSE IF IsStr(value) THEN type_map
    ELSE IF IsDict(value) /\ Has(value, "@type") THEN
        LET expanded == jsonld_expand(context, key)
        IN  IF expanded.kind = "raise" THEN Put(type_map, key, None)
            ELSE IF expanded.kind = "type" THEN Put(type_map, key, Str(expanded.uri))
            ELSE type_map
    ELSE IF IsDict(value) /\ Has(value, "@container")
         THEN Put(type_map, key, Str("@container:" \o Val(At(value, "@container"))))
    ELSE IF IsDict(value) THEN Put(type_map, key, None)
    ELSE type_map

\* one pass of the loop over context.items()
_parse_context_item(context, type_map, key, value) ==
    IF key \in AtWords THEN type_map
    ELSE IF IsStr(value) THEN type_map
    ELSE IF IsDict(value) /\ Has(value, "@container")
         THEN Put(type_map, key, Str("@container:" \o Val(At(value, "@container"))))
    ELSE IF IsDict(value) /\ Has(value, "@type") THEN
        LET expanded == jsonld_expand(context, key)
        IN  IF expanded.kind = "raise" THEN Put(type_map, key, None)
            ELSE IF expanded.kind = "type" THEN Put(type_map, key, Str(expanded.uri))
            ELSE type_map
    ELSE IF IsDict(value) THEN Put(type_map, key, None)
    ELSE type_map

RECURSIVE _parse_context(_)
_parse_context(context) ==
    LET RECURSIVE Items(_, _)
        Items(type_map, i) ==
            IF i > Len(Val(context)) THEN type_map
            ELSE IF walk_aborts(context, Val(context)[i][1], Val(context)[i][2])
            THEN type_map
            ELSE Items(_parse_context_item(context, type_map,
                                           Val(context)[i][1], Val(context)[i][2]),
                       i + 1)
        RECURSIVE Each(_, _)
        Each(type_map, i) ==
            IF i > Len(Val(context)) THEN type_map
            ELSE Each(Merge(type_map, _parse_context(Val(context)[i])), i + 1)
    IN  IF ~Truthy(context) THEN EmptyObj
        ELSE IF IsDict(context) THEN Items(EmptyObj, 1)
        ELSE IF IsList(context) THEN Each(EmptyObj, 1)
        ELSE EmptyObj

_extract_context(f) ==
    LET context == Get(f, "@context", None)
    IN  IF ~Truthy(context) THEN EmptyObj ELSE _parse_context(context)

\* IsContainerSpec, had the prefix been tested without its "@"
IsContainerSpec_unprefixed(context_type) ==
    \E c \in ContainerValues : Val(context_type) = "container:" \o c

\* context_type.startswith("@container:")
IsContainerSpec(context_type) ==
    \E c \in ContainerValues : Val(context_type) = "@container:" \o c

\* return self.TYPE_MAPPINGS[context_type]: the entry's dict itself
mapped_type_shared(tm, context_type) ==
    [schema |-> At(tm, context_type), alias |-> context_type]

\* line 444, return copy.deepcopy(self.TYPE_MAPPINGS[context_type]): the
\* entry's value in a dict of its own
mapped_type(tm, context_type) ==
    [schema |-> At(tm, context_type), alias |-> ""]

\* _infer_type_from_context returns a dict; alias names the TYPE_MAPPINGS
\* entry the returned dict is (""  when it is a dict of its own)
_infer_type_from_context(key, context_type, tm) ==
    IF context_type = None THEN [schema |-> TypeOnly("string"), alias |-> ""]
    ELSE LET container_type ==
                 IF IsContainerSpec(context_type)
                 THEN CHOOSE c \in ContainerValues :
                          Val(context_type) = "@container:" \o c
                 ELSE ""
         IN  IF container_type = "@language" THEN
                 [schema |->
                    Obj(<< <<"oneOf", Arr(<<
                        TypeOnly("string"),
                        Obj(<< <<"type", Str("object")>>,
                               <<"patternProperties",
                                 Obj(<< <<"^[a-z]{2}(-[A-Z]{2})?$", TypeOnly("string")>> >>)>>,
                               <<"additionalProperties", False>> >>) >>)>> >>),
                  alias |-> ""]
             ELSE IF container_type = "@index" THEN
                 [schema |-> Obj(<< <<"type", Str("object")>>,
                                    <<"additionalProperties", TypeOnly("string")>> >>),
                  alias |-> ""]
             ELSE IF container_type = "@set" THEN
                 [schema |-> Obj(<< <<"type", Str("array")>>, <<"uniqueItems", True>> >>),
                  alias |-> ""]
             ELSE IF container_type = "@list" THEN
                 [schema |-> TypeOnly("array"), alias |-> ""]
             ELSE IF Has(tm, Val(context_type)) THEN
                 mapped_type(tm, Val(context_type))
             ELSE [schema |-> TypeOnly("string"), alias |-> ""]

----------------------------------------------------------------------------
(* Property dispatcher and node processor.                                 *)
(* Each returns the schema it builds, TYPE_MAPPINGS as the call leaves it  *)
(* (tm) and, as a ghost, the flags every nested frame was processed with   *)
(* (used, keyed by the frame's path: the keys from the root, "[]" for an   *)
(* array's item template).                                                 *)

ReferenceSchema ==
    Obj(<< <<"oneOf", Arr(<<
        TypeFormat("string", "uri"),
        Obj(<< <<"type", Str("object")>>,
               <<"properties", Obj(<< <<"@id", TypeFormat("string", "uri")>> >>)>>,
               <<"required", StrList(<<"@id">>)>>,
               <<"additionalProperties", False>> >>) >>)>> >>)

RECURSIVE _process_frame_object(_, _, _, _, _, _)
RECURSIVE _process_frame_items(_, _, _, _, _, _)
RECURSIVE _process_nested_frame(_, _, _, _, _)
RECURSIVE _process_array_frame(_, _, _, _, _)
RECURSIVE _process_reverse_property(_, _, _, _, _)
RECURSIVE _process_reverse_items(_, _, _, _, _, _)
RECURSIVE _process_property(_, _, _, _, _, _)

Result(schema, tm, used) == [schema |-> schema, tm |-> tm, used |-> used]

\* nested_flags_of, had the nested frame's flags been read the way the root's
\* are (line 128-143): an absent keyword falls back to the default
nested_flags_defaulted(frame_obj, flags) ==
    [embed |-> Get(frame_obj, "@embed", True),
     explicit |-> Get(frame_obj, "@explicit", False),
     requireAll |-> Get(frame_obj, "@requireAll", False),
     omitDefault |-> Get(frame_obj, "@omitDefault", False)]

\* nested_flags_of, had @explicit alone not been inherited
nested_flags_own_explicit(frame_obj, flags) ==
    [embed |-> Get(frame_obj, "@embed", flags.embed),
     explicit |-> Get(frame_obj, "@explicit", False),
     requireAll |-> Get(frame_obj, "@requireAll", flags.requireAll),
     omitDefault |-> Get(frame_obj, "@omitDefault", flags.omitDefault)]

\* lines 496-501: the nested frame's own keyword, else the parent's value
nested_flags_of(frame_obj, flags) ==
    [embed |-> Get(frame_obj, "@embed", flags.embed),
     explicit |-> Get(frame_obj, "@explicit", flags.explicit),
     requireAll |-> Get(frame_obj, "@requireAll", flags.requireAll),
     omitDefault |-> Get(frame_obj, "@omitDefault", flags.omitDefault)]

\* is_reference, had the "@never" token been forgotten
is_reference_false_only(embed_value) == embed_value = False

\* lines 504-505: embed_value is False or embed_value == "@never"
is_reference(embed_value) == embed_value = False \/ embed_value = Str("@never")

\* ghost: the flags the frame at path was processed with
Used(path, flags) == {[path |-> path, flags |-> flags]}

AlsoUsed(here, r) == Result(r.schema, r.tm, here \cup r.used)

\* embed_or_reference, had a nested frame's own @context been resolved for it
embed_or_reference_own_context(frame_obj, nested_flags, context, tm, path) ==
    IF is_reference(nested_flags.embed)
    THEN Result(ReferenceSchema, tm, Used(path, nested_flags))
    ELSE AlsoUsed(Used(path, nested_flags),
                  _process_frame_object(frame_obj, TypeOnly("object"), nested_flags,
                                        IF Has(frame_obj, "@context")
                                        THEN _extract_context(frame_obj)
                                        ELSE context,
                                        tm, path))

\* lines 503-523, nested_flags computed
embed_or_reference(frame_obj, nested_flags, context, tm, path) ==
    IF is_reference(nested_flags.embed)
    THEN Result(ReferenceSchema, tm, Used(path, nested_flags))
    ELSE AlsoUsed(Used(path, nested_flags),
                  _process_frame_object(frame_obj, TypeOnly("object"),
                                        nested_flags, context, tm, path))

_process_nested_frame(frame_obj, flags, context, tm, path) ==
    embed_or_reference(frame_obj, nested_flags_of(frame_obj, flags), context, tm, path)

\* line 476
array_of(r) ==
    Result(Obj(<< <<"type", Str("array")>>, <<"items", r.schema>> >>), r.tm, r.used)

\* _process_array_frame, had the item template been the last element
_process_array_frame_last(array_value, flags, context, tm, path) ==
    IF Len(Val(array_value)) = 0
    THEN Result(Obj(<< <<"type", Str("array")>>, <<"items", EmptyObj>> >>), tm, {})
    ELSE array_of(
            IF IsDict(Val(array_value)[Len(Val(array_value))])
            THEN _process_nested_frame(Val(array_value)[Len(Val(array_value))],
                                       flags, context, tm, Append(path, "[]"))
            ELSE Result(TypeOnly(_infer_json_type(
                            Val(array_value)[Len(Val(array_value))])), tm, {}))

_process_array_frame(array_value, flags, context, tm, path) ==
    IF Len(Val(array_value)) = 0
    THEN Result(Obj(<< <<"type", Str("array")>>, <<"items", EmptyObj>> >>), tm, {})
    ELSE array_of(
            IF IsDict(Val(array_value)[1])
            THEN _process_nested_frame(Val(array_value)[1], flags, context, tm,
                                       Append(path, "[]"))
            ELSE Result(TypeOnly(_infer_json_type(Val(array_value)[1])), tm, {}))

\* reverse_entry, had the entry's schema been stored without the array form
reverse_entry_single(acc, prop_name, r) ==
    [properties |->
        Put(acc.properties, prop_name, Obj(<< <<"oneOf", Arr(<<r.schema>>)>> >>)),
     tm |-> r.tm, used |-> acc.used \cup r.used]

\* lines 549-554: reverse_schema["properties"][prop_name] = {"oneOf": [...]}
reverse_entry(acc, prop_name, r) ==
    [properties |->
        Put(acc.properties, prop_name,
            Obj(<< <<"oneOf", Arr(<<
                r.schema,
                Obj(<< <<"type", Str("array")>>, <<"items", r.schema>> >>) >>)>> >>)),
     tm |-> r.tm, used |-> acc.used \cup r.used]

\* lines 544-554: the loop over reverse_obj.items(), from the i-th entry on
_process_reverse_items(reverse_obj, flags, context, path, acc, i) ==
    IF i > Len(Val(reverse_obj)) THEN acc
    ELSE _process_reverse_items(reverse_obj, flags, context, path,
            reverse_entry(acc, Val(reverse_obj)[i][1],
                _process_nested_frame(Val(reverse_obj)[i][2], flags, context, acc.tm,
                                      Append(path, Val(reverse_obj)[i][1]))),
            i + 1)

\* lines 542, 556
reverse_schema_of(done) ==
    Result(Obj(<< <<"type", Str("object")>>, <<"properties", done.properties>> >>),
           done.tm, done.used)

_process_reverse_property(reverse_obj, flags, context, tm, path) ==
    reverse_schema_of(
        _process_reverse_items(reverse_obj, flags, context, path,
            [properties |-> EmptyObj, tm |-> tm, used |-> {}], 1))

\* lines 384-386: schema["default"] = value["@default"] writes into the dict
\* r names, which is the TYPE_MAPPINGS entry r.alias unless r.alias is ""
with_default(r, default, tm) ==
    Result(Put(r.schema, "default", default),
           IF r.alias = "" THEN tm
           ELSE Put(tm, r.alias, Put(r.schema, "default", default)),
           {})

\* _process_property, had the @default branch not excluded @value, @type and @id
_process_property_default_first(key, value, flags, context, tm, path) ==
    IF _is_empty(value)
    THEN Result(_infer_type_from_context(key, Get(context, key, None), tm).schema,
                tm, {})
    ELSE IF Tag(value) \in {"str", "int", "float", "bool"}
    THEN Result(Obj(<< <<"type", Str(_infer_json_type(value))>>,
                       <<"default", value>> >>), tm, {})
    ELSE IF IsList(value)
    THEN _process_array_frame(value, flags, context, tm, path)
    ELSE IF IsDict(value) THEN
        IF Has(value, "@default")
        THEN with_default(_infer_type_from_context(key, Get(context, key, None), tm),
                          At(value, "@default"), tm)
        ELSE IF Has(value, "@value")
        THEN Result(_process_value_object_frame(value, flags, context), tm, {})
        ELSE _process_nested_frame(value, flags, context, tm, path)
    ELSE Result(EmptyObj, tm, {})

_process_property(key, value, flags, context, tm, path) ==
    IF _is_empty(value)
    THEN Result(_infer_type_from_context(key, Get(context, key, None), tm).schema,
                tm, {})
    ELSE IF Tag(value) \in {"str", "int", "float", "bool"}
    THEN Result(Obj(<< <<"type", Str(_infer_json_type(value))>>,
                       <<"default", value>> >>), tm, {})
    ELSE IF IsList(value)
    THEN _process_array_frame(value, flags, context, tm, path)
    ELSE IF IsDict(value) THEN
        IF Has(value, "@default")
           /\ ~(Has(value, "@value") \/ Has(value, "@type") \/ Has(value, "@id"))
        THEN with_default(_infer_type_from_context(key, Get(context, key, None), tm),
                          At(value, "@default"), tm)
        ELSE IF Has(value, "@value")
        THEN Result(_process_value_object_frame(value, flags, context), tm, {})
        ELSE _process_nested_frame(value, flags, context, tm, path)
    ELSE Result(EmptyObj, tm, {})

\* type_part, had "@type" been required whenever the key is present
type_part_required(f, acc) ==
    IF Has(f, "@type")
    THEN [acc EXCEPT
            !.properties = Put(@, "@type", _process_type_constraint(At(f, "@type"))),
            !.required = Append(@, "@type")]
    ELSE acc

\* lines 256-260
type_part(f, acc) ==
    IF Has(f, "@type")
    THEN [acc EXCEPT
            !.properties = Put(@, "@type", _process_type_constraint(At(f, "@type"))),
            !.required = IF _is_wildcard(At(f, "@type")) THEN @
                         ELSE Append(@, "@type")]
    ELSE acc

\* lines 263-267
id_part(f, acc) ==
    IF Has(f, "@id")
    THEN [acc EXCEPT
            !.properties = Put(@, "@id", _process_id_constraint(At(f, "@id"))),
            !.required = IF _is_empty(At(f, "@id")) THEN @ ELSE Append(@, "@id")]
    ELSE acc

\* lines 272-273
reverse_added(acc, r) ==
    [properties |-> Put(acc.properties, "@reverse", r.schema),
     required |-> Append(acc.required, "@reverse"),
     tm |-> r.tm, used |-> acc.used \cup r.used]

\* lines 270-273
reverse_part(f, flags, context, path, acc) ==
    IF Has(f, "@reverse")
    THEN reverse_added(acc,
            _process_reverse_property(At(f, "@reverse"), flags, context, acc.tm,
                                      Append(path, "@reverse")))
    ELSE acc

\* lines 283-287
property_added(acc, key, value, flags, r) ==
    [properties |-> Put(acc.properties, key, r.schema),
     required |-> IF _should_be_required(key, value, flags)
                  THEN Append(acc.required, key) ELSE acc.required,
     tm |-> r.tm, used |-> acc.used \cup r.used]

\* lines 277-287: one iteration of the loop over frame.items(), on the i-th entry
frame_item(f, flags, context, path, acc, i) ==
    IF Val(f)[i][1] \in FRAMING_KEYWORDS \/ Val(f)[i][1] \in {"@type", "@id"}
    THEN acc
    ELSE property_added(acc, Val(f)[i][1], Val(f)[i][2], flags,
            _process_property(Val(f)[i][1], Val(f)[i][2], flags, context, acc.tm,
                              Append(path, Val(f)[i][1])))

\* lines 276-287: the loop over frame.items(), from the i-th entry on
_process_frame_items(f, flags, context, path, acc, i) ==
    IF i > Len(Val(f)) THEN acc
    ELSE _process_frame_items(f, flags, context, path,
                              frame_item(f, flags, context, path, acc, i), i + 1)

\* lines 290-291
with_properties(schema, properties) ==
    IF Truthy(properties) THEN Put(schema, "properties", properties) ELSE schema

\* lines 293-294
with_required(schema, required) ==
    IF Len(required) > 0 THEN Put(schema, "required", StrList(required)) ELSE schema

\* with_additional, had the negation of line 297 been dropped
with_additional_unnegated(schema, flags) ==
    Put(schema, "additionalProperties", Bool(Truthy(flags.explicit)))

\* line 297
with_additional(schema, flags) ==
    Put(schema, "additionalProperties", Bool(~Truthy(flags.explicit)))

\* lines 289-297
populate(schema, flags, done) ==
    Result(with_additional(
               with_required(with_properties(schema, done.properties), done.required),
               flags),
           done.tm, done.used)

_process_frame_object(f, schema, flags, context, tm, path) ==
    populate(schema, flags,
        _process_frame_items(f, flags, context, path,
            reverse_part(f, flags, context, path,
                id_part(f, type_part(f,
                    [properties |-> EmptyObj, required |-> <<>>,
                     tm |-> tm, used |-> {}]))),
            1))

----------------------------------------------------------------------------
(* Document assembler *)

\* graph_content, had the last element of an @graph list been taken
graph_content_last(f, graph_value) ==
    IF IsList(graph_value) /\ Len(Val(graph_value)) > 0
    THEN Val(graph_value)[Len(Val(graph_value))]
    ELSE IF IsDict(graph_value) THEN graph_value
    ELSE f

\* lines 85-90: the object frame_content names once @graph is unwrapped
graph_content(f, graph_value) ==
    IF IsList(graph_value) /\ Len(Val(graph_value)) > 0 THEN Val(graph_value)[1]
    ELSE IF IsDict(graph_value) THEN graph_value
    ELSE f

\* preserve_context, had line 93 been frame_content["@context"] = frame["@context"]:
\* the write lands in the object @graph holds
preserve_context_in_place(f, inner) ==
    IF ~Has(inner, "@context") /\ Has(f, "@context")
    THEN [frame_content |-> Put(inner, "@context", At(f, "@context")),
          frame |-> Put(f, "@graph",
                        IF IsList(At(f, "@graph"))
                        THEN Arr(<<Put(inner, "@context", At(f, "@context"))>>
                                 \o Tail(Val(At(f, "@graph"))))
                        ELSE Put(inner, "@context", At(f, "@context")))]
    ELSE [frame_content |-> inner, frame |-> f]

\* lines 92-93: frame_content, and the caller's frame object as these lines
\* leave it: line 93 builds a dict of its own
preserve_context(f, inner) ==
    IF ~Has(inner, "@context") /\ Has(f, "@context")
    THEN [frame_content |->
              Merge(Obj(<< <<"@context", At(f, "@context")>> >>), inner),
          frame |-> f]
    ELSE [frame_content |-> inner, frame |-> f]

\* lines 83-93
unwrap_graph(f) ==
    IF Has(f, "@graph") THEN preserve_context(f, graph_content(f, At(f, "@graph")))
    ELSE [frame_content |-> f, frame |-> f]

\* envelope, had the wrapper taken additionalProperties from the node schema
envelope_explicit(self, graph_item_schema) ==
    Obj(<< <<"$schema", Str(self.schema_version)>>,
           <<"type", Str("object")>>,
           <<"properties",
             Obj(<< <<"@context", EmptyObj>>,
                    <<"@graph", Obj(<< <<"type", Str("array")>>,
                                       <<"items", graph_item_schema>> >>)>> >>)>>,
           <<"required", StrList(<<"@context", "@graph">>)>>,
           <<"additionalProperties", At(graph_item_schema, "additionalProperties")>> >>)

\* lines 111-124
envelope(self, graph_item_schema) ==
    Obj(<< <<"$schema", Str(self.schema_version)>>,
           <<"type", Str("object")>>,
           <<"properties",
             Obj(<< <<"@context", EmptyObj>>,
                    <<"@graph", Obj(<< <<"type", Str("array")>>,
                                       <<"items", graph_item_schema>> >>)>> >>)>>,
           <<"required", StrList(<<"@context", "@graph">>)>>,
           <<"additionalProperties", True>> >>)

\* lines 107-126
assemble(self, graph_item_schema) ==
    IF self.graph_only
    THEN Merge(Obj(<< <<"$schema", Str(self.schema_version)>> >>), graph_item_schema)
    ELSE envelope(self, graph_item_schema)

\* what one call leaves: the returned schema, the caller's frame and the class
\* table after the call, and (ghost) the flags used
outcome(self, frame_after, flags, r) ==
    [schema |-> assemble(self, r.schema), frame |-> frame_after, tm |-> r.tm,
     used |-> Used(<<>>, flags) \cup r.used, raised |-> FALSE]

(* Where a call raises. The code calls dict methods on three values without *)
(* testing that they are dicts: the value of "@reverse" (.items()), each    *)
(* entry of it (.get()), and the first element of an "@graph" list.         *)
RECURSIVE nested_frame_raises(_, _)
RECURSIVE frame_object_raises(_, _)

\* line 544: reverse_obj.items(); line 548: each entry is a nested frame
reverse_property_raises(reverse_obj, flags) ==
    \/ ~IsDict(reverse_obj)
    \/ \E j \in 1..Len(Val(reverse_obj)) :
            nested_frame_raises(Val(reverse_obj)[j][2], flags)

\* line 470: only a dict first item is processed as a frame
array_frame_raises(array_value, flags) ==
    /\ Len(Val(array_value)) > 0
    /\ IsDict(Val(array_value)[1])
    /\ nested_frame_raises(Val(array_value)[1], flags)

\* lines 370-393: the branches that reach a nested frame
property_raises(value, flags) ==
    IF IsList(value) THEN array_frame_raises(value, flags)
    ELSE IF IsDict(value) /\ ~_is_empty(value)
    THEN /\ ~(Has(value, "@default")
             /\ ~(Has(value, "@value") \/ Has(value, "@type") \/ Has(value, "@id")))
         /\ ~Has(value, "@value")
         /\ nested_frame_raises(value, flags)
    ELSE FALSE

\* lines 496-499: frame_obj.get(); line 518: an embedded frame is processed
nested_frame_raises(frame_obj, flags) ==
    \/ ~IsDict(frame_obj)
    \/ /\ ~is_reference(nested_flags_of(frame_obj, flags).embed)
       /\ frame_object_raises(frame_obj, nested_flags_of(frame_obj, flags))

\* lines 269-287
frame_object_raises(f, flags) ==
    \/ Has(f, "@reverse") /\ reverse_property_raises(At(f, "@reverse"), flags)
    \/ \E i \in 1..Len(Val(f)) :
          /\ Val(f)[i][1] \notin FRAMING_KEYWORDS \cup {"@type", "@id"}
          /\ property_raises(Val(f)[i][2], flags)

\* lines 85-99: the first element of an "@graph" list is taken as the frame
graph_raises(f) ==
    /\ Has(f, "@graph")
    /\ IsList(At(f, "@graph"))
    /\ Len(Val(At(f, "@graph"))) > 0
    /\ ~IsDict(Val(At(f, "@graph"))[1])

\* a call that raised returns nothing and leaves frame and class table alone
Raised(f, tm) == [schema |-> None, frame |-> f, tm |-> tm, used |-> {}, raised |-> TRUE]

\* lines 95-105, on the effective frame
convert_content(self, u, flags, tm) ==
    outcome(self, u.frame, flags,
            _process_frame_object(u.frame_content, TypeOnly("object"), flags,
                                  _extract_context(u.frame_content), tm, <<>>))

\* self.convert(frame), the class table being tm
convert_unwrapped(self, u, tm) ==
    convert_content(self, u, _extract_framing_flags(u.frame_content), tm)

\* self.convert(frame) raises
convert_raises(f) ==
    \/ graph_raises(f)
    \/ frame_object_raises(unwrap_graph(f).frame_content,
                           _extract_framing_flags(unwrap_graph(f).frame_content))

convert(self, f, tm) ==
    IF convert_raises(f) THEN Raised(f, tm)
    ELSE convert_unwrapped(self, unwrap_graph(f), tm)

----------------------------------------------------------------------------
(* The frames the callers pass *)

\* the nesting depth of the frames of NestedFrames
MaxDepth == 2

\* the flag keywords a frame object may carry
FlagSettings ==
    { <<>>,
      << <<"@explicit", True>> >>,
      << <<"@embed", True>>, <<"@explicit", False>>,
         <<"@requireAll", False>>, <<"@omitDefault", False>> >>,
      << <<"@embed", False>> >>,
      << <<"@embed", Str("@never")>> >>,
      << <<"@embed", Str("@always")>> >>,
      << <<"@requireAll", True>> >>,
      << <<"@omitDefault", True>> >>,
      << <<"@requireAll", True>>, <<"@omitDefault", True>> >> }

FewSettings ==
    { <<>>,
      << <<"@explicit", True>>, <<"@requireAll", True>> >>,
      << <<"@embed", Str("@never")>> >>,
      << <<"@embed", Str("@link")>>, <<"@explicit", False>>, <<"@omitDefault", True>> >> }

\* the flag keywords of the frames of a chain: none, overrides of one, two and
\* all four flags, and every embed value that decides between reference and
\* expansion
ChainSettings ==
    { <<>>,
      << <<"@explicit", True>>, <<"@omitDefault", True>> >>,
      << <<"@embed", True>>, <<"@explicit", False>>,
         <<"@requireAll", False>>, <<"@omitDefault", False>> >>,
      << <<"@embed", Str("@never")>> >>,
      << <<"@embed", Str("@always")>>, <<"@requireAll", True>> >>,
      << <<"@embed", False>>, <<"@requireAll", True>>, <<"@omitDefault", True>> >> }

Person == << <<"@type", Str("ex:Person")>> >>
NameAge == << <<"ex:name", EmptyObj>>, <<"ex:age", Integer(1)>> >>

\* frames nested d deep under "ex:knows", directly at odd depths and as an
\* array's item template at even depths, every level with its own flags
RECURSIVE Chain(_)
Chain(d) ==
    IF d = 0 THEN { Obj(s \o Person \o NameAge) : s \in ChainSettings }
    ELSE { Obj(s \o NameAge \o
               << <<"ex:knows", IF d % 2 = 1 THEN c ELSE Arr(<<c>>)>> >>) :
           s \in ChainSettings, c \in Chain(d - 1) }

NestedFrames == Chain(MaxDepth)

\* @reverse entries and array items, with flags on three levels
ReverseFrames ==
    { Obj(s1 \o Person \o
          << <<"@reverse",
               Obj(<< <<"ex:parent",
                        Obj(s2 \o NameAge \o
                            << <<"ex:knows", Arr(<<Obj(s3 \o NameAge)>>)>> >>)>>,
                      <<"ex:child", Obj(s3 \o Person)>> >>)>>,
             <<"ex:name", Str("n")>> >>) :
      s1 \in FewSettings, s2 \in FewSettings, s3 \in FewSettings }
    \cup
    { Obj(s1 \o << <<"ex:knows",
                     Arr(<<Obj(s2 \o << <<"@reverse",
                                          Obj(<< <<"ex:parent", Obj(s3 \o NameAge)>> >>)>> >>)>>)>> >>) :
      s1 \in FewSettings, s2 \in FewSettings, s3 \in FewSettings }

\* the values of one property
PropValues ==
    { EmptyObj, Str("x"), Integer(1), Float("1.5"), True, None,
      Arr(<<>>), Arr(<<Str("a")>>), Arr(<<Integer(1), EmptyObj>>),
      Arr(<<EmptyObj>>), Arr(<<Arr(<<>>)>>),
      Arr(<<Obj(<< <<"@value", Str("v")>> >>), Str("z")>>),
      Arr(<<Obj(<< <<"@default", Integer(5)>> >>), Obj(NameAge)>>),
      Arr(<<None, True>>), Arr(<<Float("1.5")>>),
      Obj(<< <<"@value", Str("v")>> >>),
      Obj(<< <<"@value", EmptyObj>>, <<"@language", Str("en")>> >>),
      Obj(<< <<"@value", EmptyObj>>, <<"@type", EmptyObj>>, <<"@language", EmptyObj>> >>),
      Obj(<< <<"@default", Integer(5)>> >>),
      Obj(<< <<"@default", Str("d")>>, <<"@type", Str("ex:T")>> >>),
      Obj(<< <<"@default", Str("d")>>, <<"@value", EmptyObj>> >>),
      Obj(<< <<"@id", Str("ex:1")>> >>),
      Obj(Person \o << <<"ex:q", EmptyObj>>, <<"ex:r", None>> >>) }

PropertyFrames ==
    { Obj(s \o << <<"ex:p", v>> >>) : s \in FlagSettings, v \in PropValues }

TypeValues ==
    { Str("ex:Person"), Arr(<<>>), Arr(<<Str("ex:Person")>>),
      Arr(<<Str("ex:Person"), Str("ex:Agent")>>), EmptyObj }

IdValues ==
    { Str("ex:1"), EmptyObj, Obj(<< <<"@id", Str("ex:2")>> >>),
      Obj(<< <<"@id", EmptyObj>> >>) }

\* none, one or both of @type and @id, with and without @reverse
ConstraintFrames ==
    LET types == {<<>>} \cup { << <<"@type", t>> >> : t \in TypeValues }
        ids == {<<>>} \cup { << <<"@id", i>> >> : i \in IdValues }
        reverses == { <<>>, << <<"@reverse", EmptyObj>> >>,
                      << <<"@reverse", Obj(<< <<"ex:parent", Obj(Person)>> >>)>> >> }
    IN  { Obj(t \o i \o r) : t \in types, i \in ids, r \in reverses }

\* @type and @id on a nested frame, an item template and a @reverse entry
NestedConstraintFrames ==
    { Obj(<< <<"ex:knows", Obj(<< <<"@type", t>>, <<"@id", i>> >>)>>,
             <<"ex:list", Arr(<<Obj(<< <<"@id", i>>, <<"@type", t>> >>)>>)>>,
             <<"@reverse", Obj(<< <<"ex:parent", Obj(<< <<"@type", t>> >>)>> >>)>> >>) :
      t \in TypeValues, i \in IdValues }

Prefixes == << <<"ex", Str("http://example.org/vocab#")>>, <<"xsd", Str(XSD)>> >>

\* value objects: @value with and without @language and @type, each given as
\* a string, as {} and as something else, under flags and a context that
\* types the property
ValueObjectFrames ==
    LET values == { << <<"@value", v>> >> : v \in {EmptyObj, Str("v")} }
        languages == { <<>> } \cup
                     { << <<"@language", l>> >> : l \in {Str("en"), EmptyObj, None} }
        types == { <<>> } \cup
                 { << <<"@type", t>> >> :
                   t \in {Str("xsd:string"), EmptyObj, Arr(<<Str("xsd:string")>>)} }
        typed == << <<"@context",
                      Obj(Prefixes \o
                          << <<"ex:p", Obj(<< <<"@type", Str("xsd:integer")>> >>)>> >>)>> >>
    IN  { Obj(c \o s \o << <<"ex:p", Obj(v \o l \o t)>> >>) :
          c \in {<<>>, typed},
          s \in {<<>>, << <<"@explicit", True>>, <<"@requireAll", True>> >>},
          v \in values, l \in languages, t \in types }

\* the @context values
Contexts ==
    { Obj(Prefixes),
      Obj(Prefixes \o << <<"ex:age", Obj(<< <<"@type", Str("xsd:integer")>> >>)>> >>),
      Obj(<< <<"ex:age", Obj(<< <<"@type", Str("xsd:integer")>> >>)>> >>),
      Obj(Prefixes \o << <<"ex:age", Obj(<< <<"@type", Str("xsd:dateTime")>> >>)>>,
                         <<"ex:name", Obj(<< <<"@container", Str("@language")>> >>)>> >>),
      Obj(Prefixes \o << <<"ex:age", Obj(<< <<"@type", Str("@id")>> >>)>>,
                         <<"ex:name", Obj(<< <<"@container", Str("@set")>>,
                                             <<"@type", Str("xsd:boolean")>> >>)>> >>),
      Obj(Prefixes \o << <<"ex:age", Obj(<< <<"@type", Str("integer")>> >>)>>,
                         <<"ex:name", Obj(<< <<"@id", Str("ex:n")>> >>)>> >>),
      Arr(<< Obj(Prefixes \o << <<"ex:age", Obj(<< <<"@type", Str("xsd:integer")>> >>)>> >>),
             Obj(Prefixes \o << <<"ex:age", Obj(<< <<"@type", Str("xsd:double")>> >>)>> >>) >>),
      Arr(<< Obj(Prefixes \o << <<"ex:age", Obj(<< <<"@type", Str("xsd:integer")>> >>)>>,
                                <<"ex:name", Obj(<< <<"@type", Str("xsd:boolean")>> >>)>> >>),
             Obj(Prefixes \o << <<"ex:age", Obj(<< <<"@type", Str("@id")>> >>)>>,
                                <<"ex:name", Obj(<< <<"@id", Str("ex:n")>> >>)>> >>) >>),
      Obj(Prefixes \o << <<"@type", Obj(<< <<"@container", Str("@set")>> >>)>>,
                         <<"ex:age", Obj(<< <<"@type", Str("xsd:double")>> >>)>> >>),
      Str("https://schema.org/") }

ContextFrames ==
    { Obj(<< <<"@context", c>> >> \o p) :
      c \in Contexts,
      p \in { NameAge,
              << <<"ex:age", EmptyObj>>, <<"ex:name", EmptyObj>> >>,
              << <<"ex:age", Obj(<< <<"@default", Integer(5)>> >>)>>,
                 <<"ex:knows", Obj(<< <<"ex:age", EmptyObj>> >>)>> >> } }

\* frames with a top-level @graph
GraphFrames ==
    LET ctxA == << <<"@context", Obj(Prefixes \o
                     << <<"ex:age", Obj(<< <<"@type", Str("xsd:integer")>> >>)>> >>)>> >>
        ctxB == << <<"@context", Obj(Prefixes \o
                     << <<"ex:age", Obj(<< <<"@type", Str("xsd:boolean")>> >>)>> >>)>> >>
        inners == { Obj(c \o s \o Person \o << <<"ex:age", EmptyObj>> >>) :
                    c \in {<<>>, ctxB}, s \in {<<>>, << <<"@explicit", True>> >>} }
        graphs == { Arr(<<>>) } \cup inners
                  \cup { Arr(<<i>>) : i \in inners }
                  \cup { Arr(<<i, Obj(NameAge)>>) : i \in inners }
    IN  { Obj(c \o s \o << <<"@graph", g>> >> \o p) :
          c \in {<<>>, ctxA}, s \in {<<>>, << <<"@requireAll", True>> >>},
          g \in graphs, p \in {<<>>, << <<"ex:name", EmptyObj>> >>} }

\* fixtures of the repository's tests
EXPLICIT_FRAME ==
    Obj(<< <<"@context", Obj(<< <<"ex", Str("http://example.org/vocab#")>> >>)>>,
           <<"@explicit", True>>,
           <<"@type", Str("ex:Person")>>,
           <<"ex:name", EmptyObj>> >>)

NESTED_EXPLICIT_FRAME ==
    Obj(<< <<"@context", Obj(<< <<"ex", Str("http://example.org/vocab#")>> >>)>>,
           <<"@type", Str("ex:Organization")>>,
           <<"@explicit", True>>,
           <<"ex:name", EmptyObj>>,
           <<"ex:member", Obj(<< <<"@type", Str("ex:Person")>>,
                                 <<"@explicit", True>>,
                                 <<"ex:name", EmptyObj>> >>)>> >>)

MULTIPLE_ID_FRAME ==
    Obj(<< <<"@context", Obj(<< <<"@vocab", Str("http://schema.org/")>> >>)>>,
           <<"@id", Arr(<<Str("http://example.org/1"), Str("http://example.org/2")>>)>>,
           <<"name", EmptyObj>> >>)

FixtureFrames == {EXPLICIT_FRAME, NESTED_EXPLICIT_FRAME, MULTIPLE_ID_FRAME, EmptyObj}

\* a typed term as a pattern at the root and in a nested frame, an item
\* template and a @reverse entry that carry a @context of their own
NestedContextFrames ==
    LET typed(t) == << <<"@context", Obj(Prefixes \o
                          << <<"ex:age", Obj(<< <<"@type", Str(t)>> >>)>> >>)>> >>
        inners == { Obj(c \o << <<"ex:age", EmptyObj>> >>) :
                    c \in {<<>>, typed("xsd:boolean")} }
        unders == UNION { { << <<"ex:knows", i>> >>,
                            << <<"ex:list", Arr(<<i>>)>> >>,
                            << <<"@reverse", Obj(<< <<"ex:parent", i>> >>)>> >>,
                            << <<"ex:knows", Obj(<< <<"ex:knows", i>> >>)>> >> } :
                          i \in inners }
    IN  { Obj(c \o << <<"ex:age", EmptyObj>> >> \o u) :
          c \in {<<>>, typed("xsd:integer")}, u \in unders }

\* JSON values of every kind
AnyValues ==
    {None, True, Integer(5), Str("x"), Arr(<<>>), Arr(<<Str("x")>>), EmptyObj,
     Obj(<< <<"ex:name", EmptyObj>> >>)}

\* frames that are JSON objects with values of every kind under "@reverse",
\* under an entry of "@reverse", under "@graph" and as its first element, under
\* "@context", "@type", "@id" and an ordinary key; and "@reverse" inside a
\* nested frame that is embedded or only referenced
UnusualFrames ==
    {Obj(<< <<k, v>> >>) :
        k \in {"@reverse", "@graph", "@type", "@id", "ex:p"}, v \in AnyValues}
    \cup {Obj(<< <<"@context", v>>, <<"ex:p", EmptyObj>> >>) : v \in AnyValues}
    \cup {Obj(<< <<"@reverse", Obj(<< <<"ex:parent", v>> >>)>> >>) : v \in AnyValues}
    \cup {Obj(<< <<"@graph", Arr(<<v>>)>> >>) : v \in AnyValues}
    \cup {Obj(<< <<"@context", EmptyObj>>, <<"@graph", Arr(<<v>>)>> >>) :
            v \in AnyValues}
    \cup {Obj(<< <<"@embed", e>>,
                 <<"ex:knows", Obj(<< <<"@reverse", Arr(<<>>)>> >>)>> >>) :
            e \in {True, False}}

Frames ==
    NestedFrames \cup ReverseFrames \cup PropertyFrames \cup ConstraintFrames
    \cup ContextFrames \cup GraphFrames \cup FixtureFrames
    \cup NestedConstraintFrames \cup ValueObjectFrames \cup UnusualFrames
    \cup NestedContextFrames

----------------------------------------------------------------------------
(* The callers: construct a converter, convert a frame *)

CustomSchemaVersion == "https://json-schema.org/draft/2019-09/schema"

\* the arguments the callers pass for schema_version and graph_only
SchemaVersionArgs == {Omitted, Str(CustomSchemaVersion)}
GraphOnlyArgs == {Omitted, True}

\* FrameToSchemaConverter(...)
Construct(schema_version, graph_only) ==
    /\ converter' = __init__(schema_version, graph_only)
    /\ UNCHANGED <<TYPE_MAPPINGS, frame, returned, call, earlier, threads, pyld>>

\* what self.convert(frame) leaves in the state
Called(self, r) ==
    /\ frame' = r.frame
    /\ returned' = IF r.raised THEN returned ELSE r.schema
    /\ TYPE_MAPPINGS' = r.tm
    /\ call' = [done |-> ~r.raised, raised |-> r.raised, frame |-> frame,
                self |-> self, used |-> r.used, edited |-> FALSE, held |-> TRUE]

\* converter.convert(frame)
Convert ==
    /\ Called(converter, convert(converter, frame, TYPE_MAPPINGS))
    /\ UNCHANGED <<converter, earlier, threads, pyld>>

\* frame_to_schema(frame, ...): a converter of its own, and one convert
frame_to_schema(schema_version, graph_only) ==
    /\ Called(__init__(schema_version, graph_only),
              convert(__init__(schema_version, graph_only), frame, TYPE_MAPPINGS))
    /\ UNCHANGED <<converter, earlier, threads, pyld>>

NoCall == [done |-> FALSE, raised |-> FALSE, frame |-> None,
           self |-> __init__(Omitted, Omitted), used |-> {},
           edited |-> FALSE, held |-> FALSE]

\* ghost: a call that was made before, with the schema it returned
NoEarlier == [call |-> NoCall, returned |-> None]

Init ==
    /\ TYPE_MAPPINGS = TYPE_MAPPINGS_initial
    /\ converter = __init__(Omitted, Omitted)
    /\ frame \in Frames
    /\ returned = None
    /\ call = NoCall
    /\ earlier = NoEarlier
    /\ threads = <<>>
    /\ pyld = Resolves

Next ==
    \/ \E sv \in SchemaVersionArgs, go \in GraphOnlyArgs : Construct(sv, go)
    \/ Convert
    \/ \E sv \in SchemaVersionArgs, go \in GraphOnlyArgs : frame_to_schema(sv, go)

Spec == Init /\ [][Next]_vars

----------------------------------------------------------------------------
(* A caller that converts one frame after another in the same process and  *)
(* keeps the result of an earlier call                                     *)

AgeContext ==
    << <<"@context",
         Obj(Prefixes \o << <<"ex:age", Obj(<< <<"@type", Str("xsd:integer")>> >>)>>,
                            <<"ex:born", Obj(<< <<"@type", Str("xsd:date")>> >>)>> >>)>> >>

\* frames whose properties are typed xsd:integer and xsd:date by the context,
\* as patterns and with @default, at the root, nested and under @graph
HistoryFrames ==
    { Obj(AgeContext \o << <<"ex:age", EmptyObj>>, <<"ex:born", EmptyObj>> >>),
      Obj(AgeContext \o << <<"ex:age", Obj(<< <<"@default", Integer(5)>> >>)>> >>),
      Obj(AgeContext \o << <<"ex:born", Obj(<< <<"@default", Str("d")>> >>)>>,
                           <<"ex:knows", Obj(<< <<"ex:age", EmptyObj>> >>)>> >>),
      Obj(AgeContext \o
          << <<"@graph", Arr(<<Obj(<< <<"ex:age", Obj(<< <<"@default", Integer(7)>> >>)>>,
                                      <<"ex:born", EmptyObj>> >>)>>)>> >>),
      Obj(Person \o NameAge),
      Obj(<< <<"ex:age", Obj(<< <<"@default", Integer(5)>> >>)>> >>) }

\* the caller takes another frame
Choose(f) ==
    /\ frame' = f
    /\ call' = [call EXCEPT !.held = FALSE]
    /\ UNCHANGED <<TYPE_MAPPINGS, converter, returned, earlier, threads, pyld>>

\* ghost: the last call and its result are kept for comparison
Remember ==
    /\ call.done
    /\ earlier' = [call |-> call, returned |-> returned]
    /\ UNCHANGED <<TYPE_MAPPINGS, converter, frame, returned, call, threads, pyld>>

InitHistory ==
    /\ TYPE_MAPPINGS = TYPE_MAPPINGS_initial
    /\ converter = __init__(Omitted, Omitted)
    /\ frame \in HistoryFrames
    /\ returned = None
    /\ call = NoCall
    /\ earlier = NoEarlier
    /\ threads = <<>>
    /\ pyld = Resolves

NextHistory ==
    \/ \E sv \in SchemaVersionArgs, go \in GraphOnlyArgs : Construct(sv, go)
    \/ Convert
    \/ \E sv \in SchemaVersionArgs, go \in GraphOnlyArgs : frame_to_schema(sv, go)
    \/ \E f \in HistoryFrames : Choose(f)
    \/ Remember

SpecHistory == InitHistory /\ [][NextHistory]_vars

----------------------------------------------------------------------------
(* The property dispatcher applied to one empty-pattern property, the type *)
(* context being any mapping a context can leave (and "@id", which the     *)
(* table also holds). Here frame is the type context the caller passes.    *)

XsdNames ==
    {"string", "integer", "int", "long", "boolean", "double", "float", "decimal",
     "dateTime", "date", "time"}

\* what a type context can record for a property
TypeInfos ==
    {None, Str("@id"), Str("xsd:integer"), Str("http://example.org/vocab#Custom"),
     Str(XSD \o "anyURI")}
    \cup { Str(XSD \o t) : t \in XsdNames }
    \cup { Str("@container:" \o c) :
           c \in {"@language", "@index", "@set", "@list", "@graph"} }

TypeContexts ==
    {EmptyObj} \cup { Obj(<< <<"ex:p", info>> >>) : info \in TypeInfos }

\* self._process_property(key, {}, flags, context): lines 368-372
Infer(key) ==
    /\ returned' = _process_property(key, EmptyObj, _extract_framing_flags(EmptyObj),
                                     frame, TYPE_MAPPINGS, <<key>>).schema
    /\ TYPE_MAPPINGS' = _process_property(key, EmptyObj,
                                          _extract_framing_flags(EmptyObj),
                                          frame, TYPE_MAPPINGS, <<key>>).tm
    /\ call' = [done |-> TRUE, raised |-> FALSE,
                frame |-> Obj(<< <<key, EmptyObj>> >>),
                self |-> converter, used |-> {}, edited |-> FALSE, held |-> FALSE]
    /\ UNCHANGED <<converter, frame, earlier, threads, pyld>>

InitInfer ==
    /\ TYPE_MAPPINGS = TYPE_MAPPINGS_initial
    /\ converter = __init__(Omitted, Omitted)
    /\ frame \in TypeContexts
    /\ returned = None
    /\ call = NoCall
    /\ earlier = NoEarlier
    /\ threads = <<>>
    /\ pyld = Resolves

NextInfer ==
    \/ \E sv \in SchemaVersionArgs, go \in GraphOnlyArgs : Construct(sv, go)
    \/ \E key \in {"ex:p", "ex:q"} : Infer(key)

SpecInfer == InitInfer /\ [][NextInfer]_vars

----------------------------------------------------------------------------
(* Callers that run convert at the same time. Every call has its own local *)
(* variables (lines 82-105, 253-254); the calls share the class table and, *)
(* when they use the same instance, its two fields. A thread may be        *)
(* preempted between any two steps below; with the frames of               *)
(* ConcurrentFrames a step looks the class table up at most once.          *)

\* the number of callers
NumThreads == 2

\* frames with a property typed xsd:integer: as a pattern at the root and in a
\* nested frame, with @default under @graph, and with @default beside @reverse
ConcurrentFrames ==
    { Obj(AgeContext \o << <<"ex:age", EmptyObj>>,
                           <<"ex:knows", Obj(<< <<"ex:age", EmptyObj>> >>)>> >>),
      Obj(AgeContext \o
          << <<"@graph",
               Arr(<<Obj(<< <<"ex:age", Obj(<< <<"@default", Integer(7)>> >>)>> >>)>>)>> >>),
      Obj(AgeContext \o
          << <<"@reverse",
               Obj(<< <<"ex:parent", Obj(<< <<"ex:age", EmptyObj>> >>)>> >>)>>,
             <<"ex:age", Obj(<< <<"@default", Integer(5)>> >>)>> >>) }

\* a thread that has not called yet
Idle ==
    [pc |-> "idle", self |-> __init__(Omitted, Omitted), frame |-> None,
     frame_content |-> None, flags |-> _extract_framing_flags(EmptyObj),
     context |-> EmptyObj,
     acc |-> [properties |-> EmptyObj, required |-> <<>>,
              tm |-> TYPE_MAPPINGS_initial, used |-> {}],
     i |-> 0, returned |-> None, overlapped |-> FALSE]

\* ghost: another call is under way
Overlaps(t) == \E o \in (1..NumThreads) \ {t} : threads[o].pc \in {"reverse", "items"}

\* lines 82-102, 253-267: the call unwraps @graph, reads the flags and the type
\* context, and adds the @type and @id constraints
Start(t, self, f) ==
    /\ threads[t].pc = "idle"
    /\ threads' = [threads EXCEPT ![t] =
          [pc |-> "reverse", self |-> self, frame |-> f,
           frame_content |-> unwrap_graph(f).frame_content,
           flags |-> _extract_framing_flags(unwrap_graph(f).frame_content),
           context |-> _extract_context(unwrap_graph(f).frame_content),
           acc |-> id_part(unwrap_graph(f).frame_content,
                           type_part(unwrap_graph(f).frame_content,
                                     [properties |-> EmptyObj, required |-> <<>>,
                                      tm |-> TYPE_MAPPINGS, used |-> {}])),
           i |-> 1, returned |-> None, overlapped |-> FALSE]]
    /\ UNCHANGED <<TYPE_MAPPINGS, converter, frame, returned, call, earlier, pyld>>

\* what a step that works on the class table leaves
Stepped(t, pc, acc, i) ==
    /\ TYPE_MAPPINGS' = acc.tm
    /\ threads' = [threads EXCEPT ![t].pc = pc, ![t].acc = acc, ![t].i = i,
                                  ![t].overlapped = @ \/ Overlaps(t)]
    /\ UNCHANGED <<converter, frame, returned, call, earlier, pyld>>

\* lines 269-273
Reverse(t) ==
    /\ threads[t].pc = "reverse"
    /\ Stepped(t, "items",
               reverse_part(threads[t].frame_content, threads[t].flags,
                            threads[t].context, <<>>,
                            [threads[t].acc EXCEPT !.tm = TYPE_MAPPINGS]),
               1)

\* lines 276-287: one iteration of the loop
Item(t) ==
    /\ threads[t].pc = "items"
    /\ threads[t].i <= Len(Val(threads[t].frame_content))
    /\ Stepped(t, "items",
               frame_item(threads[t].frame_content, threads[t].flags,
                          threads[t].context, <<>>,
                          [threads[t].acc EXCEPT !.tm = TYPE_MAPPINGS],
                          threads[t].i),
               threads[t].i + 1)

\* lines 289-297, 107-126: the loop is over; the call returns
Finish(t) ==
    /\ threads[t].pc = "items"
    /\ threads[t].i > Len(Val(threads[t].frame_content))
    /\ threads' = [threads EXCEPT
          ![t].pc = "done",
          ![t].returned =
              assemble(threads[t].self,
                       populate(TypeOnly("object"), threads[t].flags,
                                threads[t].acc).schema)]
    /\ UNCHANGED <<TYPE_MAPPINGS, converter, frame, returned, call, earlier, pyld>>

InitConcurrent ==
    /\ TYPE_MAPPINGS = TYPE_MAPPINGS_initial
    /\ converter = __init__(Omitted, Omitted)
    /\ frame = EmptyObj
    /\ returned = None
    /\ call = NoCall
    /\ earlier = NoEarlier
    /\ threads = [t \in 1..NumThreads |-> Idle]
    /\ pyld = Resolves

\* a thread calls the shared instance or one of its own
NextConcurrent ==
    \E t \in 1..NumThreads :
        \/ \E f \in ConcurrentFrames : Start(t, converter, f)
        \/ \E f \in ConcurrentFrames : Start(t, __init__(Omitted, True), f)
        \/ Reverse(t)
        \/ Item(t)
        \/ Finish(t)

SpecConcurrent == InitConcurrent /\ [][NextConcurrent]_vars

----------------------------------------------------------------------------
(* Callers whose expansion collaborator fails for some context keys *)

\* the terms the contexts of ExpansionFrames type, in the order they declare them
TypedTerms ==
    << <<"ex:age", "integer">>, <<"ex:born", "date">>, <<"ex:name", "boolean">> >>

\* a mapping context and a list context typing the three terms, and a frame
\* with the three as {} patterns, at the root and in a nested frame
ExpansionFrames ==
    LET term(i) == <<TypedTerms[i][1],
                     Obj(<< <<"@type", Str("xsd:" \o TypedTerms[i][2])>> >>)>>
        patterns == [i \in 1..3 |-> <<TypedTerms[i][1], EmptyObj>>]
    IN  { Obj(<< <<"@context", c>> >> \o p) :
          c \in { Obj(Prefixes \o <<term(1), term(2), term(3)>>),
                  Arr(<< Obj(Prefixes \o <<term(1), term(2)>>),
                         Obj(Prefixes \o <<term(3)>>) >>) },
          p \in { patterns, << <<"ex:knows", Obj(patterns)>> >> } }

\* the collaborator fails for any terms, with an exception lines 216-218
\* recover from or with a KeyError
FailureSettings ==
    { [recovered |-> r, aborting |-> a] :
      r \in SUBSET {"ex:age", "ex:born", "ex:name"},
      a \in {{}, {"ex:age"}, {"ex:born"}, {"ex:name"}} }

InitExpansion ==
    /\ TYPE_MAPPINGS = TYPE_MAPPINGS_initial
    /\ converter = __init__(Omitted, Omitted)
    /\ frame \in ExpansionFrames
    /\ returned = None
    /\ call = NoCall
    /\ earlier = NoEarlier
    /\ threads = <<>>
    /\ pyld \in FailureSettings

SpecExpansion == InitExpansion /\ [][Next]_vars

----------------------------------------------------------------------------
(* What the properties below read from a state *)

\* the effective node frame of the last call
Effective == unwrap_graph(call.frame).frame_content

\* the node schema inside a returned schema
NodeSchema(ret, self) ==
    IF self.graph_only THEN ret
    ELSE At(At(At(ret, "properties"), "@graph"), "items")

\* a returned schema without its "$schema" entry
WithoutVersion(ret) ==
    Obj(SelectSeq(Val(ret), LAMBDA kv : kv[1] # "$schema"))

\* the node schema of the last call
GraphItemSchema == WithoutVersion(NodeSchema(returned, call.self))

\* s[k], None where s is no object or has no k
Sub(s, k) == IF IsDict(s) /\ Has(s, k) THEN At(s, k) ELSE None

\* the names a "required" list holds
Names(names) ==
    IF IsList(names) THEN {Val(names)[i] : i \in 1..Len(Val(names))} ELSE {}

\* the flags the root inherits
RootFlags ==
    [embed |-> True, explicit |-> False, requireAll |-> False, omitDefault |-> False]

\* a frame's own keyword value where the key is present, else the inherited one
Resolved(f, inherited) ==
    [embed |-> IF Has(f, "@embed") THEN At(f, "@embed") ELSE inherited.embed,
     explicit |-> IF Has(f, "@explicit") THEN At(f, "@explicit")
                  ELSE inherited.explicit,
     requireAll |-> IF Has(f, "@requireAll") THEN At(f, "@requireAll")
                    ELSE inherited.requireAll,
     omitDefault |-> IF Has(f, "@omitDefault") THEN At(f, "@omitDefault")
                     ELSE inherited.omitDefault]

NotEmbedded(flags) == flags.embed \in {False, Str("@never")}

\* the keys of a node frame that are translated as properties
IsProperty(k) ==
    k \notin {"@type", "@id", "@context", "@embed", "@explicit", "@requireAll",
              "@omitDefault", "@graph", "@reverse"}

\* a property value classified as a plain nested frame
IsNestedFrame(v) ==
    /\ IsDict(v) /\ v # EmptyObj
    /\ ~Has(v, "@value")
    /\ ~(Has(v, "@default") /\ ~Has(v, "@type") /\ ~Has(v, "@id"))

\* an array whose first element is an object used as item template
HasItemTemplate(v) == IsList(v) /\ Len(Val(v)) > 0 /\ IsDict(Val(v)[1])

Node(f, inherited, path) ==
    [path |-> path, frame |-> f, flags |-> Resolved(f, inherited),
     inherited |-> inherited]

\* the frame objects of a frame that the conversion reaches, each with its path
\* from the root, its resolved flags and the flags it inherits: the root, and
\* under every expanded node its nested frames, item templates and @reverse
\* entries
RECURSIVE Nodes(_, _, _)
Under(kv, flags, path) ==
    IF kv[1] = "@reverse" THEN
        IF IsDict(kv[2])
        THEN UNION { Nodes(Val(kv[2])[j][2], flags,
                           path \o <<"@reverse", Val(kv[2])[j][1]>>) :
                     j \in 1..Len(Val(kv[2])) }
        ELSE {}
    ELSE IF ~IsProperty(kv[1]) THEN {}
    ELSE IF IsNestedFrame(kv[2]) THEN Nodes(kv[2], flags, Append(path, kv[1]))
    ELSE IF HasItemTemplate(kv[2])
    THEN Nodes(Val(kv[2])[1], flags, path \o <<kv[1], "[]">>)
    ELSE {}

Nodes(f, inherited, path) ==
    {Node(f, inherited, path)}
    \cup IF path # <<>> /\ NotEmbedded(Resolved(f, inherited)) THEN {}
         ELSE UNION { Under(Val(f)[i], Resolved(f, inherited), path) :
                      i \in 1..Len(Val(f)) }

\* the nodes of the last call's frame
FrameNodes == Nodes(Effective, RootFlags, <<>>)

\* those of them that are nested frames
NestedNodes == {n \in FrameNodes : n.path # <<>>}

\* those of them that are expanded into an object schema
ExpandedNodes == {n \in FrameNodes : n.path = <<>> \/ ~NotEmbedded(n.flags)}

\* the schema a node schema holds for one @reverse entry, taken singly
ReverseEntrySchema(s, name) ==
    Sub(Sub(Sub(Sub(s, "properties"), "@reverse"), "properties"), name)

First(alternatives) ==
    IF IsList(alternatives) /\ Len(Val(alternatives)) > 0
    THEN Val(alternatives)[1] ELSE None

\* the schema a node schema holds for the frame object at path
RECURSIVE SchemaAt(_, _, _)
SchemaAt(s, path, i) ==
    IF i > Len(path) THEN s
    ELSE IF path[i] = "@reverse"
    THEN SchemaAt(First(Sub(ReverseEntrySchema(s, path[i + 1]), "oneOf")),
                  path, i + 2)
    ELSE IF path[i] = "[]" THEN SchemaAt(Sub(s, "items"), path, i + 1)
    ELSE SchemaAt(Sub(Sub(s, "properties"), path[i]), path, i + 1)

\* the schema of the last call for a node of its frame
SchemaOf(n) == SchemaAt(GraphItemSchema, n.path, 1)

\* every level of a schema: the schema itself and the schemas under its
\* properties, patternProperties, items, additionalProperties and oneOf, each
\* marked when it is the value of a property named "@reverse"
RECURSIVE Levels(_, _)
PropertyLevels(properties) ==
    IF IsDict(properties)
    THEN UNION { Levels(Val(properties)[i][2], Val(properties)[i][1] = "@reverse") :
                 i \in 1..Len(Val(properties)) }
    ELSE {}

AlternativeLevels(alternatives) ==
    IF IsList(alternatives)
    THEN UNION { Levels(Val(alternatives)[i], FALSE) : i \in 1..Len(Val(alternatives)) }
    ELSE {}

Levels(s, reverse) ==
    IF ~IsDict(s) THEN {}
    ELSE {[schema |-> s, reverse |-> reverse]}
         \cup PropertyLevels(Sub(s, "properties"))
         \cup PropertyLevels(Sub(s, "patternProperties"))
         \cup Levels(Sub(s, "items"), FALSE)
         \cup Levels(Sub(s, "additionalProperties"), FALSE)
         \cup AlternativeLevels(Sub(s, "oneOf"))

\* required, where a level has it, is a non-empty list without duplicates of
\* names that are keys of the level's properties
RequiredIsSound(s) ==
    Has(s, "required") =>
        /\ IsList(At(s, "required"))
        /\ Len(Val(At(s, "required"))) > 0
        /\ \A i, j \in 1..Len(Val(At(s, "required"))) :
               i # j => Val(At(s, "required"))[i] # Val(At(s, "required"))[j]
        /\ \A name \in Names(At(s, "required")) :
               IsStr(name) /\ IsDict(Sub(s, "properties"))
               /\ Has(Sub(s, "properties"), Val(name))

\* a frame with nothing to translate: flags only
IsBare(f) ==
    \A i \in 1..Len(Val(f)) :
        Val(f)[i][1] \in {"@embed", "@explicit", "@requireAll", "@omitDefault"}

----------------------------------------------------------------------------
(* C1: convert(frame) never mutates its input: after the call the caller's *)
(* frame equals the frame as it was passed, in both graph_only modes.      *)
C1_NonMutation == (call.done \/ call.raised) => frame = call.frame

\* a call has unwrapped @graph and carried the outer @context into an inner
\* frame that had none, in graph_only mode
C1_Witness ==
    /\ call.done
    /\ call.self.graph_only
    /\ Has(call.frame, "@graph") /\ Has(call.frame, "@context")
    /\ Effective # call.frame
    /\ ~Has(graph_content(call.frame, At(call.frame, "@graph")), "@context")
    /\ Has(Effective, "@context")

----------------------------------------------------------------------------
----------------------------------------------------------------------------
----------------------------------------------------------------------------
(* C4: with default options (graph_only not given) the returned schema is  *)
(* the frame's own node schema at the top level: its properties hold the   *)
(* schemas of the frame's own keys, its required lists the frame's         *)
(* required names, and its additionalProperties is false whenever the      *)
(* frame has @explicit: true.                                              *)
C4_TopLevelNode ==
    (call.done /\ call.self.given.graph_only = Omitted) =>
        /\ Has(Effective, "@type")
               => Has(At(returned, "properties"), "@type")
        /\ Get(Effective, "@explicit", False) = True
               => At(returned, "additionalProperties") = False

----------------------------------------------------------------------------
(* C5: in every schema object the Node Processor produces (the root node   *)
(* schema and every embedded nested-frame, array-item and @reverse-entry   *)
(* schema) additionalProperties is false if and only if the node's         *)
(* resolved explicit flag, its own @explicit if present and otherwise the  *)
(* value inherited from its parent, is true.                               *)
C5_AdditionalProperties ==
    call.done =>
        \A n \in ExpandedNodes :
            /\ Sub(SchemaOf(n), "additionalProperties") \in {True, False}
            /\ Sub(SchemaOf(n), "additionalProperties") = False
                   <=> n.flags.explicit = True

\* an array's item template and a @reverse entry without @explicit of their
\* own were expanded under a parent whose resolved explicit flag is true
C5_Witness ==
    /\ call.done
    /\ \E n \in ExpandedNodes :
           /\ Len(n.path) > 1 /\ n.path[Len(n.path)] = "[]"
           /\ ~Has(n.frame, "@explicit") /\ n.inherited.explicit = True
           /\ Sub(SchemaOf(n), "additionalProperties") = False
    /\ \E n \in ExpandedNodes :
           /\ Len(n.path) > 1 /\ n.path[Len(n.path) - 1] = "@reverse"
           /\ ~Has(n.frame, "@explicit")
           /\ Sub(SchemaOf(n), "additionalProperties") = False

----------------------------------------------------------------------------
(* C6, as claimed: for every frame node at any depth that is expanded into *)
(* an object schema, @explicit: true on the node gives additionalProperties*)
(* false, and no @explicit key or @explicit: false on the node gives       *)
(* additionalProperties true.                                              *)
C6_OwnExplicitOnly ==
    call.done =>
        \A n \in ExpandedNodes :
            /\ Get(n.frame, "@explicit", None) = True
                   => Sub(SchemaOf(n), "additionalProperties") = False
            /\ (~Has(n.frame, "@explicit") \/ At(n.frame, "@explicit") = False)
                   => Sub(SchemaOf(n), "additionalProperties") = True

(* C6, amended: @explicit: true on the node gives additionalProperties     *)
(* false and @explicit: false gives true; a node without an @explicit key  *)
(* gets additionalProperties true at the root, and below the root true     *)
(* exactly when its parent's resolved explicit flag is not true.           *)
C6_ExplicitOrInherited ==
    call.done =>
        \A n \in ExpandedNodes :
            /\ Get(n.frame, "@explicit", None) = True
                   => Sub(SchemaOf(n), "additionalProperties") = False
            /\ Get(n.frame, "@explicit", None) = False
                   => Sub(SchemaOf(n), "additionalProperties") = True
            /\ (~Has(n.frame, "@explicit") /\ n.path = <<>>)
                   => Sub(SchemaOf(n), "additionalProperties") = True
            /\ (~Has(n.frame, "@explicit") /\ n.path # <<>>)
                   => Sub(SchemaOf(n), "additionalProperties")
                          = Bool(n.inherited.explicit # True)

\* a nested frame without an @explicit key was expanded two levels below a
\* frame with @explicit: true, and another with @explicit: false under it
C6_Witness ==
    /\ call.done
    /\ \E n \in ExpandedNodes :
           /\ Len(n.path) >= 2
           /\ ~Has(n.frame, "@explicit") /\ n.inherited.explicit = True
           /\ Sub(SchemaOf(n), "additionalProperties") = False
    /\ \E n \in ExpandedNodes :
           /\ n.path # <<>>
           /\ Get(n.frame, "@explicit", None) = False
           /\ n.inherited.explicit = True
           /\ Sub(SchemaOf(n), "additionalProperties") = True

----------------------------------------------------------------------------
(* C7: for every key of a node frame other than @type, @id and the framing *)
(* keywords, the key is in the node's required list exactly when the       *)
(* node's resolved requireAll is true, or else its resolved omitDefault is *)
(* false and the frame value is an object or an array; under requireAll    *)
(* every such key is required even if omitDefault is true too, and scalar  *)
(* and null values are required only under requireAll.                     *)
C7_Required ==
    call.done =>
        \A n \in ExpandedNodes :
            \A i \in 1..Len(Val(n.frame)) :
                IsProperty(Val(n.frame)[i][1]) =>
                    (Str(Val(n.frame)[i][1]) \in Names(Sub(SchemaOf(n), "required"))
                     <=> \/ n.flags.requireAll = True
                         \/ /\ n.flags.omitDefault = False
                            /\ (IsDict(Val(n.frame)[i][2]) \/ IsList(Val(n.frame)[i][2])))

\* a nested frame inherits both requireAll and omitDefault true and its
\* scalar property is required, while a frame of the same conversion with
\* omitDefault alone leaves its empty-pattern property out of required
C7_Witness ==
    /\ call.done
    /\ \E n \in ExpandedNodes :
           /\ n.path # <<>>
           /\ ~Has(n.frame, "@requireAll") /\ ~Has(n.frame, "@omitDefault")
           /\ n.flags.requireAll = True /\ n.flags.omitDefault = True
           /\ Get(n.frame, "ex:age", None) = Integer(1)
           /\ Str("ex:age") \in Names(Sub(SchemaOf(n), "required"))
    /\ \E m \in ExpandedNodes :
           /\ m.flags.omitDefault = True /\ m.flags.requireAll = False
           /\ Get(m.frame, "ex:name", None) = EmptyObj
           /\ Str("ex:name") \notin Names(Sub(SchemaOf(m), "required"))

----------------------------------------------------------------------------
(* C8: at every level of every generated schema, required      *)
(* (when present) is a non-empty list without duplicates whose names are   *)
(* keys of properties at the same level, and required and properties are   *)
(* omitted rather than emitted empty; the empty frame yields a node schema *)
(* with only type and additionalProperties.                                *)
C8_NeverEmpty ==
    call.done =>
        /\ \A level \in Levels(returned, FALSE) :
               /\ RequiredIsSound(level.schema)
               /\ Has(level.schema, "properties")
                      => Truthy(At(level.schema, "properties"))
        /\ IsBare(Effective)
               => KeySet(GraphItemSchema) = {"type", "additionalProperties"}

----------------------------------------------------------------------------
(* C9: a nested frame object (a property value that is a plain nested      *)
(* frame, an array's item template or a @reverse entry) whose resolved     *)
(* embed flag, its own or inherited, is false or "@never" has exactly the  *)
(* schema oneOf[{type: string, format: uri}, {type: object, properties:    *)
(* {"@id": {type: string, format: uri}}, required: ["@id"],                *)
(* additionalProperties: false}] and nothing below it is translated; with  *)
(* any other embed value it is expanded into a schema of type "object".    *)
C9_Reference ==
    call.done =>
        \A n \in NestedNodes :
            IF n.flags.embed = False \/ n.flags.embed = Str("@never")
            THEN /\ SchemaOf(n) =
                        Obj(<< <<"oneOf", Arr(<<
                            Obj(<< <<"type", Str("string")>>,
                                   <<"format", Str("uri")>> >>),
                            Obj(<< <<"type", Str("object")>>,
                                   <<"properties",
                                     Obj(<< <<"@id",
                                              Obj(<< <<"type", Str("string")>>,
                                                     <<"format", Str("uri")>> >>)>> >>)>>,
                                   <<"required", Arr(<<Str("@id")>>)>>,
                                   <<"additionalProperties", False>> >>) >>)>> >>)
                 /\ \A u \in call.used :
                        Len(u.path) > Len(n.path)
                            => SubSeq(u.path, 1, Len(n.path)) # n.path
            ELSE /\ Sub(SchemaOf(n), "type") = Str("object")
                 /\ Has(SchemaOf(n), "additionalProperties")

\* a nested frame with a nested frame of its own inherits "@never" from its
\* parent and becomes a reference
C9_Witness ==
    /\ call.done
    /\ \E n \in NestedNodes :
           /\ ~Has(n.frame, "@embed") /\ n.flags.embed = Str("@never")
           /\ Has(n.frame, "ex:knows")
           /\ Has(SchemaOf(n), "oneOf")

----------------------------------------------------------------------------
(* C10: the flags used for a nested frame are, for each of embed,          *)
(* explicit, requireAll and omitDefault independently, the nested frame's  *)
(* own keyword value if the key is present and otherwise its parent's      *)
(* resolved value, at every depth and through array item templates and     *)
(* @reverse entries; the root's parent values are embed true, explicit     *)
(* false, requireAll false, omitDefault false; and a child's override      *)
(* changes the flags of neither its parent nor its siblings.               *)
C10_Propagation ==
    call.done =>
        call.used = {[path |-> n.path, flags |-> n.flags] : n \in FrameNodes}

\* two levels below the root a frame uses a flag its grandparent set and
\* neither it nor its parent carries, while its parent overrides another
C10_Witness ==
    /\ call.done
    /\ \E n \in FrameNodes, parent \in FrameNodes :
           /\ Len(n.path) >= 2 /\ Len(parent.path) >= 1
           /\ Len(parent.path) < Len(n.path)
           /\ SubSeq(n.path, 1, Len(parent.path)) = parent.path
           /\ ~Has(n.frame, "@requireAll") /\ ~Has(parent.frame, "@requireAll")
           /\ n.flags.requireAll = True
           /\ Has(parent.frame, "@embed") /\ parent.flags.embed # parent.inherited.embed
           /\ [path |-> n.path, flags |-> n.flags] \in call.used

----------------------------------------------------------------------------
(* What the properties below read of a node's own constraints *)

\* the schema a node's schema holds for one of the node's keys
PropertySchema(n, key) == Sub(Sub(SchemaOf(n), "properties"), key)

\* the key is listed in the node's required
IsRequired(n, key) == Str(key) \in Names(Sub(SchemaOf(n), "required"))

\* the @id values the rules are stated for: a string, {} and {"@id": X}
RECURSIVE IsIdForm(_)
IsIdForm(x) ==
    \/ IsStr(x)
    \/ x = EmptyObj
    \/ IsDict(x) /\ Has(x, "@id") /\ IsIdForm(At(x, "@id"))

\* the schema the @id rules give
RECURSIVE IdRule(_)
IdRule(x) ==
    IF IsStr(x) THEN Obj(<< <<"const", x>> >>)
    ELSE IF x = EmptyObj
    THEN Obj(<< <<"type", Str("string")>>, <<"format", Str("uri")>> >>)
    ELSE IdRule(At(x, "@id"))

----------------------------------------------------------------------------
(* C11: @type at a node given as a string v gives properties["@type"] =    *)
(* {const: v} and "@type" in required; a one-element list [v] gives        *)
(* {const: v}, required; a list of two or more values gives {enum: the     *)
(* list in frame order}, required; the empty list gives {type: "string"}   *)
(* and "@type" is not in required.                                         *)
C11_TypeConstraint ==
    call.done =>
        \A n \in ExpandedNodes :
            /\ (Has(n.frame, "@type") /\ IsStr(At(n.frame, "@type"))) =>
                   /\ PropertySchema(n, "@type")
                          = Obj(<< <<"const", At(n.frame, "@type")>> >>)
                   /\ IsRequired(n, "@type")
            /\ (Has(n.frame, "@type") /\ IsList(At(n.frame, "@type"))) =>
                   /\ Len(Val(At(n.frame, "@type"))) = 0 =>
                          /\ PropertySchema(n, "@type")
                                 = Obj(<< <<"type", Str("string")>> >>)
                          /\ ~IsRequired(n, "@type")
                   /\ Len(Val(At(n.frame, "@type"))) = 1 =>
                          /\ PropertySchema(n, "@type")
                                 = Obj(<< <<"const", Val(At(n.frame, "@type"))[1]>> >>)
                          /\ IsRequired(n, "@type")
                   /\ Len(Val(At(n.frame, "@type"))) >= 2 =>
                          /\ PropertySchema(n, "@type")
                                 = Obj(<< <<"enum", At(n.frame, "@type")>> >>)
                          /\ IsRequired(n, "@type")

\* one conversion translated a one-element @type list on a nested frame, on
\* an item template and on a @reverse entry
C11_Witness ==
    /\ call.done
    /\ \E n \in ExpandedNodes :
           /\ n.path = <<"ex:list", "[]">>
           /\ Get(n.frame, "@type", None) = Arr(<<Str("ex:Person")>>)
           /\ PropertySchema(n, "@type") = Obj(<< <<"const", Str("ex:Person")>> >>)
    /\ \E n \in ExpandedNodes :
           /\ n.path = <<"@reverse", "ex:parent">>
           /\ IsRequired(n, "@type")

----------------------------------------------------------------------------
(* C12: @type at a node given as the empty pattern {} gives                *)
(* properties["@type"] = {type: "string"} and "@type" is listed in that    *)
(* node's required (unlike a wildcard @id, which is not required).         *)
C12_EmptyTypeRequired ==
    call.done =>
        \A n \in ExpandedNodes :
            Get(n.frame, "@type", None) = EmptyObj =>
                /\ PropertySchema(n, "@type") = Obj(<< <<"type", Str("string")>> >>)
                /\ IsRequired(n, "@type")

----------------------------------------------------------------------------
----------------------------------------------------------------------------
----------------------------------------------------------------------------
----------------------------------------------------------------------------
(* C16: for any frame containing @reverse, the node schema generated with  *)
(* graph_only=True lists "@reverse" neither in properties nor in required, *)
(* while the frame's other constraints (@type, ordinary properties) are    *)
(* still generated.                                                        *)
C16_ReverseNotInSchema ==
    (call.done /\ call.self.graph_only /\ Has(Effective, "@reverse")) =>
        /\ ~Has(At(returned, "properties"), "@reverse")
        /\ Str("@reverse") \notin Names(Sub(returned, "required"))
        /\ Has(Effective, "@type") => Has(At(returned, "properties"), "@type")

----------------------------------------------------------------------------
\* the schema the translation table gives for a recorded type info
TypeRule(info) ==
    LET string == Obj(<< <<"type", Str("string")>> >>)
        typed(t) == Obj(<< <<"type", Str(t)>> >>)
        formatted(f) == Obj(<< <<"type", Str("string")>>, <<"format", Str(f)>> >>)
    IN  CASE info = None -> string
          [] info = Str(XSD \o "string") -> string
          [] info \in {Str(XSD \o "int"), Str(XSD \o "integer"), Str(XSD \o "long")}
                -> typed("integer")
          [] info \in {Str(XSD \o "double"), Str(XSD \o "float"),
                       Str(XSD \o "decimal")} -> typed("number")
          [] info = Str(XSD \o "boolean") -> typed("boolean")
          [] info = Str(XSD \o "dateTime") -> formatted("date-time")
          [] info = Str(XSD \o "date") -> formatted("date")
          [] info = Str(XSD \o "time") -> formatted("time")
          [] info = Str("@id") -> formatted("uri")
          [] info = Str("@container:@language") ->
                Obj(<< <<"oneOf", Arr(<<
                    string,
                    Obj(<< <<"type", Str("object")>>,
                           <<"patternProperties",
                             Obj(<< <<"^[a-z]{2}(-[A-Z]{2})?$", string>> >>)>>,
                           <<"additionalProperties", False>> >>) >>)>> >>)
          [] info = Str("@container:@index") ->
                Obj(<< <<"type", Str("object")>>, <<"additionalProperties", string>> >>)
          [] info = Str("@container:@set") ->
                Obj(<< <<"type", Str("array")>>, <<"uniqueItems", True>> >>)
          [] info = Str("@container:@list") -> typed("array")
          [] OTHER -> string

(* C17: type-from-context translation of a property's recorded type info:  *)
(* XSD string gives {type: "string"}; int, integer and long {type:         *)
(* "integer"}; double, float and decimal {type: "number"}; boolean {type:  *)
(* "boolean"}; dateTime, date and time {type: "string"} with format        *)
(* "date-time", "date" and "time"; "@id" {type: "string", format: "uri"};  *)
(* @container:@language the language-map oneOf; @container:@index {type:   *)
(* "object", additionalProperties: {type: "string"}}; @container:@set      *)
(* {type: "array", uniqueItems: true}; @container:@list {type: "array"};   *)
(* no recorded info, an unmapped type URI or an unknown container value    *)
(* {type: "string"}.                                                       *)
C17_TypeFromContext ==
    call.done =>
        /\ returned = TypeRule(Get(frame, Keys(call.frame)[1], None))
        /\ TYPE_MAPPINGS = TYPE_MAPPINGS_initial

\* a property recorded as a language map was translated, by a converter
\* built with graph_only
C17_Witness ==
    /\ call.done
    /\ call.self.graph_only
    /\ Get(frame, Keys(call.frame)[1], None) = Str("@container:@language")
    /\ Has(returned, "oneOf")

----------------------------------------------------------------------------
\* what the value-object rule adds for @language or @type: a const for a
\* string, {type: "string"} for {}, nothing otherwise
KeywordRule(v, keyword) ==
    IF ~Has(v, keyword) THEN <<>>
    ELSE IF IsStr(At(v, keyword))
    THEN << <<keyword, Obj(<< <<"const", At(v, keyword)>> >>)>> >>
    ELSE IF At(v, keyword) = EmptyObj
    THEN << <<keyword, Obj(<< <<"type", Str("string")>> >>)>> >>
    ELSE <<>>

\* the schema the value-object rule gives
ValueRule(v) ==
    Obj(<< <<"oneOf", Arr(<<
        Obj(<< <<"type", Str("string")>> >>),
        Obj(<< <<"type", Str("object")>>,
               <<"properties",
                 Obj(<< <<"@value", EmptyObj>> >>
                     \o KeywordRule(v, "@language") \o KeywordRule(v, "@type"))>>,
               <<"required", Arr(<<Str("@value")>>)>> >>) >>)>> >>)

(* C18: for a property whose frame value is an object containing @value,   *)
(* the schema is always oneOf[{type: "string"}, V] with V = {type:         *)
(* "object", properties: {"@value": {}}, required: ["@value"]}; V gets     *)
(* properties["@language"] (resp. ["@type"]) = {const: x} when the frame   *)
(* gives that keyword as a string x, {type: "string"} when it gives it as  *)
(* {}, and no entry for it otherwise; the content of @value, the flags and *)
(* the type context never change the result.                               *)
C18_ValueObject ==
    call.done =>
        \A n \in ExpandedNodes :
            \A i \in 1..Len(Val(n.frame)) :
                (/\ IsProperty(Val(n.frame)[i][1])
                 /\ IsDict(Val(n.frame)[i][2])
                 /\ Has(Val(n.frame)[i][2], "@value"))
                    => PropertySchema(n, Val(n.frame)[i][1])
                           = ValueRule(Val(n.frame)[i][2])

\* a value object with a string @value, @language {} and a string @type was
\* translated under @requireAll and a context that types the property
C18_Witness ==
    /\ call.done
    /\ Get(_extract_context(Effective), "ex:p", None)
           = Str("http://www.w3.org/2001/XMLSchema#integer")
    /\ Get(Effective, "@requireAll", None) = True
    /\ Has(Effective, "ex:p")
    /\ Get(Effective, "ex:p", None)
           = Obj(<< <<"@value", Str("v")>>, <<"@language", EmptyObj>>,
                    <<"@type", Str("xsd:string")>> >>)
    /\ Keys(Sub(Val(Sub(Sub(Sub(GraphItemSchema, "properties"), "ex:p"), "oneOf"))[2],
                "properties"))
           = <<"@value", "@language", "@type">>

----------------------------------------------------------------------------
(* C19: convert never raises: for every frame that is a JSON object,       *)
(* whatever JSON values appear under its ordinary keys and under @type,    *)
(* @id, @reverse, @graph, @context and the flag keywords, the call returns *)
(* a schema object with "$schema" and type "object".                       *)
C19_NeverRaises ==
    /\ ~call.raised
    /\ call.done =>
          /\ IsDict(returned)
          /\ Has(returned, "$schema")
          /\ Sub(returned, "type") = Str("object")

----------------------------------------------------------------------------
(* C20: convert invocations are independent under concurrency: for any     *)
(* interleaving of several convert calls running at the same time, each on *)
(* its own frame instance, sharing the class table and possibly one        *)
(* converter instance, every call returns the schema it returns when run   *)
(* alone, and no call observes state written by another (the shared table  *)
(* is never written).                                                      *)
C20_Independent ==
    /\ TYPE_MAPPINGS = TYPE_MAPPINGS_initial
    /\ \A t \in 1..NumThreads :
          threads[t].pc = "done"
              => threads[t].returned
                     = convert(threads[t].self, threads[t].frame,
                               TYPE_MAPPINGS_initial).schema

\* two calls on the shared instance ran interleaved and returned; one gave a
\* default to a property typed xsd:integer, the other read the same type
C20_Witness ==
    /\ \A t \in {1, 2} :
          /\ threads[t].pc = "done"
          /\ threads[t].overlapped
          /\ threads[t].self = converter
    /\ Sub(Sub(threads[1].frame, "ex:age"), "@default") = Integer(5)
    /\ Sub(threads[2].frame, "ex:age") = EmptyObj
    /\ Sub(Sub(Sub(NodeSchema(threads[2].returned, threads[2].self), "properties"), "ex:age"), "type")
           = Str("integer")

----------------------------------------------------------------------------
\* the schema the dispatcher's rules give for a property, first match first
DispatchRule(key, v, flags, context) ==
    IF v = EmptyObj THEN TypeRule(Get(context, key, None))
    ELSE IF Tag(v) \in {"str", "int", "float", "bool"}
    THEN Obj(<< <<"type", Str(CASE Tag(v) = "bool" -> "boolean"
                                [] Tag(v) = "int" -> "integer"
                                [] Tag(v) = "float" -> "number"
                                [] OTHER -> "string")>>,
                <<"default", v>> >>)
    ELSE IF IsList(v)
    THEN _process_array_frame(v, flags, context, TYPE_MAPPINGS_initial, <<>>).schema
    ELSE IF IsDict(v) /\ Has(v, "@default")
            /\ ~Has(v, "@value") /\ ~Has(v, "@type") /\ ~Has(v, "@id")
    THEN Put(TypeRule(Get(context, key, None)), "default", At(v, "@default"))
    ELSE IF IsDict(v) /\ Has(v, "@value") THEN ValueRule(v)
    ELSE IF IsDict(v)
    THEN _process_nested_frame(v, flags, context, TYPE_MAPPINGS_initial, <<>>).schema
    ELSE EmptyObj

(* C21: the dispatcher classifies a frame value by the first matching      *)
(* rule: (1) {} gives the type-from-context schema for the key; (2) a      *)
(* string, number or boolean gives {type: inferred, default: the literal}, *)
(* a boolean inferring "boolean", an integer "integer", a float "number";  *)
(* (3) an array gives the array rule; (4) an object with @default and none *)
(* of @value, @type, @id gives the type-from-context schema plus default;  *)
(* (5) an object with @value, even with @default, gives the value-object   *)
(* schema; (6) any other object, also one with @default beside @type or    *)
(* @id, is a nested frame; anything else (null) gives the empty schema {}  *)
(* with the key still present in properties.                               *)
C21_Dispatch ==
    call.done =>
        \A n \in ExpandedNodes :
            \A i \in 1..Len(Val(n.frame)) :
                IsProperty(Val(n.frame)[i][1]) =>
                    /\ Has(Sub(SchemaOf(n), "properties"), Val(n.frame)[i][1])
                    /\ PropertySchema(n, Val(n.frame)[i][1])
                           = DispatchRule(Val(n.frame)[i][1], Val(n.frame)[i][2],
                                          n.flags, _extract_context(Effective))

\* a value with @default and @value was classified as a value object, under
\* @requireAll
C21_Witness ==
    /\ call.done
    /\ Sub(Effective, "@requireAll") = True
    /\ Sub(Effective, "ex:p") = Obj(<< <<"@default", Str("d")>>,
                                       <<"@value", EmptyObj>> >>)
    /\ Has(Sub(Sub(GraphItemSchema, "properties"), "ex:p"), "oneOf")
    /\ ~Has(Sub(Sub(GraphItemSchema, "properties"), "ex:p"), "default")

----------------------------------------------------------------------------
\* the items schema the array rule gives for a first element
ItemRule(first, flags, context) ==
    IF IsDict(first)
    THEN IF NotEmbedded(Resolved(first, flags)) THEN ReferenceSchema
         ELSE _process_frame_object(first, TypeOnly("object"), Resolved(first, flags),
                                    context, TYPE_MAPPINGS_initial, <<>>).schema
    ELSE Obj(<< <<"type", Str(CASE Tag(first) = "bool" -> "boolean"
                                [] Tag(first) = "int" -> "integer"
                                [] Tag(first) = "float" -> "number"
                                [] Tag(first) = "str" -> "string"
                                [] Tag(first) = "arr" -> "array"
                                [] OTHER -> "null")>> >>)

(* C22: for a property whose frame value is an array, the empty array      *)
(* gives {type: "array", items: {}}; otherwise the schema is {type:        *)
(* "array", items: I} where I depends only on the first element: an object *)
(* first element is processed as a nested frame with the current flags (an *)
(* embedded object schema, or the reference schema under resolved embed    *)
(* false or "@never", even if the object contains @value or @default), and *)
(* any non-object first element gives I = {type: its inferred JSON type}   *)
(* with no default.                                                        *)
C22_Array ==
    call.done =>
        \A n \in ExpandedNodes :
            \A i \in 1..Len(Val(n.frame)) :
                (IsProperty(Val(n.frame)[i][1]) /\ IsList(Val(n.frame)[i][2])) =>
                    PropertySchema(n, Val(n.frame)[i][1])
                        = Obj(<< <<"type", Str("array")>>,
                                 <<"items",
                                   IF Len(Val(Val(n.frame)[i][2])) = 0 THEN EmptyObj
                                   ELSE ItemRule(Val(Val(n.frame)[i][2])[1], n.flags,
                                                 _extract_context(Effective))>> >>)

\* an array whose first element holds @default and whose second is a frame
\* with properties gave an embedded object schema of the first element alone
C22_Witness ==
    /\ call.done
    /\ Sub(Effective, "ex:p") = Arr(<<Obj(<< <<"@default", Integer(5)>> >>),
                                       Obj(NameAge)>>)
    /\ Sub(Sub(Sub(Sub(GraphItemSchema, "properties"), "ex:p"), "items"), "type")
           = Str("object")
    /\ Keys(Sub(Sub(Sub(Sub(GraphItemSchema, "properties"), "ex:p"), "items"),
                "properties")) = <<"@default">>

----------------------------------------------------------------------------
\* the node frame the @graph rules name, before the outer @context is added
GraphRule(f) ==
    IF ~Has(f, "@graph") THEN f
    ELSE IF IsList(At(f, "@graph")) /\ Len(Val(At(f, "@graph"))) > 0
    THEN Val(At(f, "@graph"))[1]
    ELSE IF IsDict(At(f, "@graph")) THEN At(f, "@graph")
    ELSE f

\* the effective node frame the @graph rules name
EffectiveRule(f) ==
    IF Has(f, "@graph") /\ Has(f, "@context") /\ ~Has(GraphRule(f), "@context")
    THEN Obj(<< <<"@context", At(f, "@context")>> >> \o Val(GraphRule(f)))
    ELSE GraphRule(f)

(* C23: when the frame has a top-level @graph, the effective node frame is *)
(* @graph's first element if @graph is a non-empty array (later elements   *)
(* are ignored), @graph itself if it is an object, and the outer frame     *)
(* (with the @graph key skipped) if @graph is an empty array; the outer    *)
(* @context is added to the effective frame if and only if the effective   *)
(* frame has no @context of its own (the two are never merged); and when   *)
(* @graph is unwrapped no other outer key influences the schema.           *)
C23_Graph ==
    (call.done /\ Has(call.frame, "@graph")) =>
        /\ GraphItemSchema
              = _process_frame_object(
                    EffectiveRule(call.frame), TypeOnly("object"),
                    _extract_framing_flags(EffectiveRule(call.frame)),
                    _extract_context(EffectiveRule(call.frame)),
                    TYPE_MAPPINGS_initial, <<>>).schema
        /\ Sub(Sub(GraphItemSchema, "properties"), "@graph") = None

\* @graph held two frames, the first with a @context of its own typing ex:age
\* as boolean, under an outer frame with another @context, @requireAll and a
\* property
C23_Witness ==
    /\ call.done
    /\ Has(call.frame, "@context") /\ Has(call.frame, "ex:name")
    /\ Sub(call.frame, "@requireAll") = True
    /\ IsList(Sub(call.frame, "@graph")) /\ Len(Val(Sub(call.frame, "@graph"))) = 2
    /\ Has(Val(Sub(call.frame, "@graph"))[1], "@context")
    /\ Sub(call.frame, "@context") # Sub(Val(Sub(call.frame, "@graph"))[1], "@context")
    /\ Sub(Sub(Sub(GraphItemSchema, "properties"), "ex:age"), "type") = Str("boolean")
    /\ Sub(Sub(GraphItemSchema, "properties"), "ex:name") = None

----------------------------------------------------------------------------
\* what the rules record for a key: <<"none">> for no entry, else <<"some", v>>
RECURSIVE Recorded(_, _, _)
Recorded(context, key, i) ==
    IF IsList(context)
    THEN IF i = 0 THEN <<"none">>
         ELSE IF Recorded(Val(context)[i], key, Len(Val(Val(context)[i]))) # <<"none">>
         THEN Recorded(Val(context)[i], key, Len(Val(Val(context)[i])))
         ELSE Recorded(context, key, i - 1)
    ELSE IF ~IsDict(context) \/ ~Has(context, key) THEN <<"none">>
    ELSE IF key \in AtWords \/ IsStr(At(context, key)) THEN <<"none">>
    ELSE IF ~IsDict(At(context, key)) THEN <<"none">>
    ELSE IF Has(At(context, key), "@container")
    THEN <<"some", Str("@container:" \o Val(At(At(context, key), "@container")))>>
    ELSE IF Has(At(context, key), "@type")
    THEN CASE jsonld_expand(context, key).kind = "type"
                -> <<"some", Str(jsonld_expand(context, key).uri)>>
           [] jsonld_expand(context, key).kind = "raise" -> <<"some", None>>
           [] OTHER -> <<"none">>
    ELSE <<"some", None>>

\* the keys a context mentions
ContextKeys(context) ==
    IF IsDict(context) THEN KeySet(context)
    ELSE IF IsList(context)
    THEN UNION { IF IsDict(Val(context)[i]) THEN KeySet(Val(context)[i]) ELSE {} :
                 i \in 1..Len(Val(context)) }
    ELSE {}

----------------------------------------------------------------------------
\* the schema of the last call for a term given as a {} pattern
TermSchema(key) ==
    IF Has(Effective, "ex:knows")
    THEN Sub(Sub(Sub(Sub(GraphItemSchema, "properties"), "ex:knows"), "properties"),
             key)
    ELSE Sub(Sub(GraphItemSchema, "properties"), key)

----------------------------------------------------------------------------
(* C26: if context resolution fails as a whole (an error that is not       *)
(* recovered per property aborts the walk over the context), the resulting *)
(* type context is the empty map, no entry recorded before the failure     *)
(* survives, and conversion still completes, typing every empty-pattern    *)
(* property as {type: "string"}.                                           *)
C26_EmptyOnFailure ==
    /\ ~call.raised
    /\ (call.done /\ pyld.aborting # {}) =>
          /\ _extract_context(Effective) = EmptyObj
          /\ \A i \in 1..Len(TypedTerms) :
                 TermSchema(TypedTerms[i][1]) = Obj(<< <<"type", Str("string")>> >>)

----------------------------------------------------------------------------
(* Callers that edit the schema they got. A Python dict or list that the   *)
(* schema holds without a copy is the same object as the one it was taken  *)
(* from: an edit of the one is an edit of the other.                       *)

\* the value is translated by _infer_type_from_context (lines 370-372, 382-386)
typed_from_context(value) ==
    \/ _is_empty(value)
    \/ /\ IsDict(value) /\ Has(value, "@default")
       /\ ~(Has(value, "@value") \/ Has(value, "@type") \/ Has(value, "@id"))

\* lines 443-444: the TYPE_MAPPINGS entry that the schema of a property is
\* ("" when the schema is a dict of its own)
table_entry_of(key, value, context, tm) ==
    IF typed_from_context(value)
    THEN _infer_type_from_context(key, Get(context, key, None), tm).alias
    ELSE ""

\* line 320: {"enum": type_value} holds the frame's own list
enum_is_frame_list(f) ==
    Has(f, "@type") /\ IsList(At(f, "@type")) /\ Len(Val(At(f, "@type"))) >= 2

\* line 385: schema["default"] = value["@default"] holds the frame's own value
default_is_frame_value(value) ==
    /\ typed_from_context(value) /\ ~_is_empty(value)
    /\ IsList(At(value, "@default"))

\* the lists a caller grows are at most this long
MaxEdited == 3

\* frames without @graph: typed patterns, a typed @default, a multi-valued
\* @type and a @default that is a list
EditFrames ==
    { Obj(AgeContext \o << <<"ex:age", EmptyObj>>, <<"ex:born", EmptyObj>> >>),
      Obj(AgeContext \o << <<"ex:age", Obj(<< <<"@default", Integer(5)>> >>)>> >>),
      Obj(AgeContext \o
          << <<"@type", Arr(<<Str("ex:Person"), Str("ex:Agent")>>)>>,
             <<"ex:tags", Obj(<< <<"@default", Arr(<<Str("a")>>)>> >>)>>,
             <<"ex:age", EmptyObj>> >>) }

\* the returned schema with node as its node schema
WithNode(ret, self, node) ==
    IF self.graph_only THEN node
    ELSE Put(ret, "properties",
             Put(At(ret, "properties"), "@graph",
                 Put(At(At(ret, "properties"), "@graph"), "items", node)))

\* the returned schema after schema["properties"][key][name] = v
Edited(key, name, v) ==
    WithNode(returned, call.self,
        Put(NodeSchema(returned, call.self), "properties",
            Put(At(NodeSchema(returned, call.self), "properties"), key,
                Put(At(At(NodeSchema(returned, call.self), "properties"), key),
                    name, v))))

\* the caller can edit the schema of key: the last call returned one
Editable(key) ==
    /\ call.done /\ ~call.edited
    /\ IsDict(Sub(Sub(NodeSchema(returned, call.self), "properties"), key))

\* the caller sets node["properties"][key]["default"] = 99
EditProperty(key) ==
    /\ Editable(key) /\ Has(call.frame, key)
    /\ returned' = Edited(key, "default", Integer(99))
    /\ TYPE_MAPPINGS' =
          IF table_entry_of(key, At(call.frame, key), _extract_context(call.frame),
                            TYPE_MAPPINGS) = ""
          THEN TYPE_MAPPINGS
          ELSE Put(TYPE_MAPPINGS,
                   table_entry_of(key, At(call.frame, key),
                                  _extract_context(call.frame), TYPE_MAPPINGS),
                   At(At(NodeSchema(returned', call.self), "properties"), key))
    /\ call' = [call EXCEPT !.edited = TRUE]
    /\ UNCHANGED <<converter, frame, earlier, threads, pyld>>

\* the caller appends to node["properties"]["@type"]["enum"]
EditEnum ==
    /\ Editable("@type")
    /\ IsList(Sub(Sub(Sub(NodeSchema(returned, call.self), "properties"), "@type"),
                   "enum"))
    /\ Len(Val(At(At(At(NodeSchema(returned, call.self), "properties"), "@type"),
                   "enum"))) < MaxEdited
    /\ returned' =
          Edited("@type", "enum",
                 Arr(Append(Val(At(At(At(NodeSchema(returned, call.self), "properties"),
                                      "@type"), "enum")),
                            Str("ex:Added"))))
    /\ frame' =
          IF call.held /\ enum_is_frame_list(call.frame)
          THEN Put(frame, "@type", Arr(Append(Val(At(frame, "@type")), Str("ex:Added"))))
          ELSE frame
    /\ call' = [call EXCEPT !.edited = TRUE]
    /\ UNCHANGED <<TYPE_MAPPINGS, converter, earlier, threads, pyld>>

\* the caller appends to node["properties"][key]["default"]
EditDefault(key) ==
    /\ Editable(key) /\ Has(call.frame, key)
    /\ IsList(Sub(Sub(Sub(NodeSchema(returned, call.self), "properties"), key),
                   "default"))
    /\ Len(Val(At(At(At(NodeSchema(returned, call.self), "properties"), key),
                   "default"))) < MaxEdited
    /\ returned' =
          Edited(key, "default",
                 Arr(Append(Val(At(At(At(NodeSchema(returned, call.self), "properties"),
                                      key), "default")),
                            Str("added"))))
    /\ frame' =
          IF call.held /\ default_is_frame_value(At(call.frame, key))
          THEN Put(frame, key,
                   Put(At(frame, key), "@default",
                       Arr(Append(Val(At(At(frame, key), "@default")), Str("added")))))
          ELSE frame
    /\ call' = [call EXCEPT !.edited = TRUE]
    /\ UNCHANGED <<TYPE_MAPPINGS, converter, earlier, threads, pyld>>

InitEdits ==
    /\ TYPE_MAPPINGS = TYPE_MAPPINGS_initial
    /\ converter = __init__(Omitted, Omitted)
    /\ frame \in EditFrames
    /\ returned = None
    /\ call = NoCall
    /\ earlier = NoEarlier
    /\ threads = <<>>
    /\ pyld = Resolves

NextEdits ==
    \/ \E go \in GraphOnlyArgs : Construct(Omitted, go)
    \/ Convert
    \/ \E f \in EditFrames : Choose(f)
    \/ Remember
    \/ \E key \in {"ex:age", "ex:born"} : EditProperty(key)
    \/ EditEnum
    \/ EditDefault("ex:tags")

SpecEdits == InitEdits /\ [][NextEdits]_vars

----------------------------------------------------------------------------
(* C27: after any sequence of convert calls, including frames that attach  *)
(* a @default to a context-typed property, and after any mutation of       *)
(* returned schemas by callers, the class-level TYPE_MAPPINGS table is     *)
(* unchanged: every schema fragment derived from it is a fresh copy, so a  *)
(* later conversion of a typed empty-pattern property never carries a      *)
(* default (or any other edit) left by an earlier conversion.              *)
C27_TableUnchanged ==
    /\ TYPE_MAPPINGS = TYPE_MAPPINGS_initial
    /\ call.done =>
          \A key \in {"ex:age", "ex:born"} :
              Has(call.frame, key) =>
                  table_entry_of(key, At(call.frame, key),
                                 _extract_context(call.frame), TYPE_MAPPINGS) = ""
    /\ (call.done /\ ~call.edited) =>
          \A key \in {"ex:age", "ex:born"} :
              Sub(call.frame, key) = EmptyObj =>
                  Sub(Sub(GraphItemSchema, "properties"), key)
                      = TypeRule(Get(_extract_context(call.frame), key, None))

\* a frame gave ex:age, typed xsd:integer, a @default and the caller edited the
\* schema of ex:age; a later call translated ex:age as a pattern
C27_Witness ==
    /\ earlier.call.done /\ earlier.call.edited
    /\ Sub(Sub(earlier.call.frame, "ex:age"), "@default") = Integer(5)
    /\ Sub(Sub(Sub(NodeSchema(earlier.returned, earlier.call.self), "properties"),
                "ex:age"), "default") = Integer(99)
    /\ call.done /\ ~call.edited
    /\ Sub(call.frame, "ex:age") = EmptyObj
    /\ Sub(Sub(GraphItemSchema, "properties"), "ex:age")
           = Obj(<< <<"type", Str("integer")>> >>)

----------------------------------------------------------------------------
(* C28: the schema returned by convert is owned solely by the caller: it   *)
(* shares no mutable list or object with the input frame, so mutating any  *)
(* part of the returned schema (such as an enum list built from a          *)
(* multi-valued @type, or a default value built from @default) never       *)
(* changes the frame.                                                      *)
C28_NoSharing == (call.done /\ call.held) => frame = call.frame

----------------------------------------------------------------------------
(* C29: a frame whose @id is a list of two or more IRIs produces           *)
(* properties["@id"] = {enum: that list} with "@id" listed in required.    *)
C29_IdEnum ==
    call.done =>
        \A n \in ExpandedNodes :
            (IsList(Sub(n.frame, "@id")) /\ Len(Val(At(n.frame, "@id"))) >= 2) =>
                /\ PropertySchema(n, "@id") = Obj(<< <<"enum", At(n.frame, "@id")>> >>)
                /\ IsRequired(n, "@id")

----------------------------------------------------------------------------
(* C30: the type context is built exactly once per convert call, from the  *)
(* @context of the effective root frame only: a @context key inside a      *)
(* nested frame, an array item template or a @reverse entry never changes  *)
(* how any property is typed and never appears as a schema property, and a *)
(* given property name receives the same context-derived schema at every   *)
(* nesting depth.                                                          *)
C30_RootContextOnly ==
    call.done =>
        \A n \in ExpandedNodes :
            /\ PropertySchema(n, "@context") = None
            /\ \A key \in {"ex:age", "ex:name"} :
                   Sub(n.frame, key) = EmptyObj =>
                       PropertySchema(n, key)
                           = TypeRule(Get(_extract_context(Effective), key, None))

\* the root types ex:age as an integer, a frame two levels down types it as a
\* boolean in a @context of its own, and both give ex:age as a pattern
C30_Witness ==
    /\ call.done
    /\ Sub(Sub(Sub(Effective, "@context"), "ex:age"), "@type") = Str("xsd:integer")
    /\ Sub(Effective, "ex:age") = EmptyObj
    /\ \E n \in ExpandedNodes :
           /\ Len(n.path) = 2
           /\ Sub(Sub(Sub(n.frame, "@context"), "ex:age"), "@type") = Str("xsd:boolean")
           /\ Sub(n.frame, "ex:age") = EmptyObj
           /\ PropertySchema(n, "ex:age") = Obj(<< <<"type", Str("integer")>> >>)

====
